---- MODULE Spec2Model ----
\* Verification model of the client-side resilience layer:
\*   - HttpClient.request / fetchWithTimeout        (src/src/convex.ts)
\*   - WebSocketConnectionManager + connect wrapper  (src/src/convex.ts)
\*   - streamChat                                    (src/src/convex.ts)
\*   - useSSE / processSSEChunk                      (src/src/hooks/useSSE.ts)
\* Each component keeps its state in one record variable; a specification
\* runs one component (or a union of components) and leaves the others idle.
EXTENDS Integers, Sequences, FiniteSets, TLC

VARIABLES http, ws, hook, chat, poll, app, net, ui

vars == <<http, ws, hook, chat, poll, app, net, ui>>

\* ------------------------------------------------------------------ bounds
\* Largest `retries` value a caller passes to HttpClient.request in the model.
MaxRetries == 5

\* ------------------------------------------------------------ small helpers
Min(a, b) == IF a <= b THEN a ELSE b

RECURSIVE Pow(_, _)
\* Math.pow(b, n) for an integer n >= 0
Pow(b, n) == IF n <= 0 THEN 1 ELSE b * Pow(b, n - 1)

Last(s) == s[Len(s)]

\* s is non-decreasing
NonDecreasing(s) == \A i \in 1..(Len(s) - 1) : s[i] <= s[i + 1]

\* =================================================================== HTTP
\* HttpClient.request (convex.ts:559-635) with fetchWithTimeout (532-557).

DEFAULT_RETRIES == 3
HTTP_BACKOFF_BASE_MS == 1000
HTTP_BACKOFF_CAP_MS == 10000

\* HTTP statuses a server answers with in the model
Statuses == {200, 401, 404, 429, 500}

\* response.ok
ResponseOk(status) == status >= 200 /\ status < 300

\* Error values.  kind is the class of the thrown object, statusCode the field
\* HttpApiError carries (NetworkError 0, TimeoutError 408); a SyntaxError from
\* response.json() is a plain Error, not an HttpApiError.
NoError == [kind |-> "none", statusCode |-> 0]
NetworkError == [kind |-> "NetworkError", statusCode |-> 0]
TimeoutError == [kind |-> "TimeoutError", statusCode |-> 408]
HttpApiError(status) == [kind |-> "HttpApiError", statusCode |-> status]
SyntaxError == [kind |-> "SyntaxError", statusCode |-> 0]

\* error instanceof HttpApiError (NetworkError, TimeoutError and
\* AuthenticationError extend it)
IsHttpApiError(e) ==
  e.kind \in {"HttpApiError", "AuthenticationError", "NetworkError", "TimeoutError"}

\* the two `throw error` tests of the catch block (convex.ts:616-624)
MutNoRetryAll(e) == e.kind # "none"
NoRetry(e) ==
  \/ e.kind = "AuthenticationError"
  \/ (IsHttpApiError(e) /\ e.statusCode >= 400 /\ e.statusCode < 500)

\* Math.min(1000 * Math.pow(2, attempt), 10000)
MutHttpDelayUncapped(attempt) == HTTP_BACKOFF_BASE_MS * Pow(2, attempt)
HttpDelay(attempt) ==
  Min(HTTP_BACKOFF_BASE_MS * Pow(2, attempt), HTTP_BACKOFF_CAP_MS)

\* the loop test `attempt <= retries`
MutLoopOneMore(attempt, retries) == attempt <= retries + 1
LoopContinues(attempt, retries) == attempt <= retries

\* how one attempt ended: "network" (fetch rejected), "timeout" (aborted by
\* the timer), "response" (a response with this status was read), "badjson"
\* (a response whose application/json body did not parse; status 0)
Outcome(type, status) == [type |-> type, status |-> status]

\* The client before request().  calls counts the fetch calls issued, inFlight
\* those not yet settled, status is response.status of the current attempt,
\* firstStatus that of the first attempt (0: no response), outcomes how the
\* attempts ended, delays the backoff delays waited.
HttpIdle ==
  [live |-> TRUE, pc |-> "idle", retries |-> DEFAULT_RETRIES, attempt |-> 0,
   calls |-> 0, inFlight |-> 0, status |-> 0, firstStatus |-> 0,
   lastError |-> NoError, outcomes |-> <<>>, delays |-> <<>>]

\* the body of one loop iteration up to `await fetch(...)`: a network call is
\* issued and the timeout timer armed
StartAttempt(h) ==
  [h EXCEPT !.pc = "fetching", !.calls = @ + 1, !.inFlight = @ + 1, !.status = 0]

\* the loop header: next iteration, or `throw lastError` after the loop
LoopStep(h, attempt) ==
  IF LoopContinues(attempt, h.retries)
    THEN StartAttempt([h EXCEPT !.attempt = attempt])
    ELSE [h EXCEPT !.attempt = attempt, !.pc = "thrown"]

\* the catch block (convex.ts:613-631) for error e of the current attempt
HandleError(h, e, outcome) ==
  LET h1 == [h EXCEPT !.lastError = e, !.inFlight = @ - 1,
                      !.outcomes = Append(@, outcome)]
  IN  IF NoRetry(e)
        THEN [h1 EXCEPT !.pc = "thrown"]
        ELSE IF h1.attempt < h1.retries
          THEN [h1 EXCEPT !.pc = "backoff",
                          !.delays = Append(@, HttpDelay(h1.attempt))]
          ELSE LoopStep(h1, h1.attempt + 1)

\* `return data` / `return { success: true, ... }`
ReturnOk(h, outcome) ==
  [h EXCEPT !.pc = "returned", !.inFlight = @ - 1,
            !.outcomes = Append(@, outcome)]

\* request(endpoint, config): config.retries ?? DEFAULT_RETRIES, first attempt
HttpRequest ==
  /\ http.live
  /\ http.pc = "idle"
  /\ \E r \in (0..MaxRetries) \cup {DEFAULT_RETRIES} :
       http' = LoopStep([http EXCEPT !.retries = r], 0)
  /\ UNCHANGED <<ws, hook, chat, poll, app, net, ui>>

\* fetch rejects with a transport failure: NetworkError
HttpFetchFails ==
  /\ http.pc = "fetching"
  /\ http' = HandleError(http, NetworkError, Outcome("network", 0))
  /\ UNCHANGED <<ws, hook, chat, poll, app, net, ui>>

\* no response within `timeout`: the timer aborts the fetch, which rejects
\* with AbortError, rethrown as TimeoutError
HttpFetchTimesOut ==
  /\ http.pc = "fetching"
  /\ http' = HandleError(http, TimeoutError, Outcome("timeout", 0))
  /\ UNCHANGED <<ws, hook, chat, poll, app, net, ui>>

\* a response arrives (the timer is cleared); isJson is
\* contentType?.includes('application/json')
HttpResponse ==
  /\ http.pc = "fetching"
  /\ \E s \in Statuses, isJson \in BOOLEAN :
       LET h1 == [http EXCEPT !.status = s,
                              !.firstStatus = IF http.attempt = 0 THEN s ELSE @]
       IN  http' =
             IF isJson
               THEN [h1 EXCEPT !.pc = "parsing"]
               ELSE IF ~ResponseOk(s)
                 THEN HandleError(h1, HttpApiError(s), Outcome("response", s))
                 ELSE ReturnOk(h1, Outcome("response", s))
  /\ UNCHANGED <<ws, hook, chat, poll, app, net, ui>>

\* `await response.json()` settles: a body that is not JSON rejects with a
\* SyntaxError, which the same catch block receives
HttpJsonSettles ==
  /\ http.pc = "parsing"
  /\ \E parses \in BOOLEAN :
       http' =
         IF ~parses
           THEN HandleError(http, SyntaxError, Outcome("badjson", 0))
           ELSE IF ~ResponseOk(http.status)
             THEN HandleError(http, HttpApiError(http.status),
                              Outcome("response", http.status))
             ELSE ReturnOk(http, Outcome("response", http.status))
  /\ UNCHANGED <<ws, hook, chat, poll, app, net, ui>>

\* the backoff timer fires: attempt++ and the loop test
HttpBackoffElapsed ==
  /\ http.pc = "backoff"
  /\ http' = LoopStep(http, http.attempt + 1)
  /\ UNCHANGED <<ws, hook, chat, poll, app, net, ui>>

NextHttp ==
  \/ HttpRequest
  \/ HttpFetchFails
  \/ HttpFetchTimesOut
  \/ HttpResponse
  \/ HttpJsonSettles
  \/ HttpBackoffElapsed


\* ============================================================== WebSocket
\* WebSocketConnectionManager (convex.ts:34-163) and the wrapper that
\* createConvexClient installs over client.connect (convex.ts:221-274).

MAX_RETRIES == 5
INITIAL_RETRY_DELAY_MS == 1000
MAX_RETRY_DELAY_MS == 30000
BACKOFF_MULTIPLIER == 2

\* connect calls that may be pending at once in the model
MaxPending == 2

\* the manager's initial state (convex.ts:35-40); pending counts the calls of
\* the underlying connect that have not settled, delays logs the retry delays
\* announced since the last recorded connection or reset, overlap the largest
\* number of calls that were pending at once since then; refused: the last
\* call of the wrapped connect was rejected at its shouldRetry() test
WsIdle ==
  [live |-> TRUE, state |-> "connecting", retryCount |-> 0, lastError |-> "none",
   pending |-> 0, delays |-> <<>>, overlap |-> 0, refused |-> FALSE]

\* getRetryDelay(): min(INITIAL * MULTIPLIER ^ retryCount, MAX)
WsGetRetryDelay(retryCount) ==
  Min(INITIAL_RETRY_DELAY_MS * Pow(BACKOFF_MULTIPLIER, retryCount),
      MAX_RETRY_DELAY_MS)

\* shouldRetry()
MutShouldRetryOneMore(w) == w.retryCount <= MAX_RETRIES
WsShouldRetry(w) == w.retryCount < MAX_RETRIES

\* recordConnectionAttempt()
WsRecordConnectionAttempt(w) == [w EXCEPT !.state = "connecting"]

\* recordConnected()
WsRecordConnected(w) ==
  [w EXCEPT !.state = "connected", !.retryCount = 0, !.lastError = "none",
            !.delays = <<>>, !.overlap = 0]

\* recordError(error)
WsRecordError(w) ==
  LET newRetryCount == w.retryCount + 1
  IN  [w EXCEPT !.state = IF newRetryCount >= MAX_RETRIES
                            THEN "max_retries_exceeded" ELSE "error",
                !.retryCount = newRetryCount,
                !.lastError = "error"]

\* recordDisconnected()
WsRecordDisconnected(w) == [w EXCEPT !.state = "disconnected"]

\* reset()
WsResetState(w) ==
  [w EXCEPT !.state = "connecting", !.retryCount = 0, !.lastError = "none",
            !.delays = <<>>, !.overlap = 0]

\* the wrapped connect is called: rejected at once when shouldRetry() is
\* false, otherwise the attempt is recorded and the underlying connect called
WsConnect ==
  /\ ws.live
  /\ ws.pending < MaxPending
  /\ ws' = IF ~WsShouldRetry(ws)
             THEN [ws EXCEPT !.refused = TRUE]
             ELSE [WsRecordConnectionAttempt(ws) EXCEPT
                     !.refused = FALSE,
                     !.pending = @ + 1,
                     !.overlap = IF ws.pending + 1 > @ THEN ws.pending + 1 ELSE @]
  /\ UNCHANGED <<http, hook, chat, poll, app, net, ui>>

\* the underlying connect resolves (.then)
WsConnectResolves ==
  /\ ws.pending > 0
  /\ ws' = [WsRecordConnected(ws) EXCEPT !.pending = @ - 1]
  /\ UNCHANGED <<http, hook, chat, poll, app, net, ui>>

\* the underlying connect rejects (.catch): recordError, and the retry delay is
\* computed and announced when shouldRetry()
WsConnectRejects ==
  /\ ws.pending > 0
  /\ LET w1 == [WsRecordError(ws) EXCEPT !.pending = @ - 1]
     IN  ws' = IF WsShouldRetry(w1)
                 THEN [w1 EXCEPT !.delays = Append(@, WsGetRetryDelay(w1.retryCount))]
                 ELSE w1
  /\ UNCHANGED <<http, hook, chat, poll, app, net, ui>>

\* client.onStateChange(state) (convex.ts:256-273)
WsStateChange ==
  /\ ws.live
  /\ \E s \in {"connecting", "connected", "disconnected", "error"} :
       ws' = CASE s = "connecting" -> WsRecordConnectionAttempt(ws)
               [] s = "connected" -> WsRecordConnected(ws)
               [] s = "disconnected" -> WsRecordDisconnected(ws)
               [] OTHER -> ws
  /\ UNCHANGED <<http, hook, chat, poll, app, net, ui>>

\* resetConnection()
WsReset ==
  /\ ws.live
  /\ ws' = WsResetState(ws)
  /\ UNCHANGED <<http, hook, chat, poll, app, net, ui>>

NextWs ==
  \/ WsConnect
  \/ WsConnectResolves
  \/ WsConnectRejects
  \/ WsStateChange
  \/ WsReset

\* =================================================================== text
\* Text is a sequence of one-character strings.  The alphabet is the
\* characters of the frames below.

\* the characters String.prototype.trim removes, within the alphabet
IsSpace(c) == c = " "

\* line.trim()
Trim(s) ==
  LET keep == {i \in 1..Len(s) : ~IsSpace(s[i])}
  IN  IF keep = {}
        THEN <<>>
        ELSE SubSeq(s, CHOOSE i \in keep : \A j \in keep : i <= j,
                       CHOOSE i \in keep : \A j \in keep : i >= j)

\* s.startsWith(p)
StartsWith(s, p) == Len(s) >= Len(p) /\ SubSeq(s, 1, Len(p)) = p

RECURSIVE SplitLines(_)
\* buffer.split('\n'): always at least one element
SplitLines(s) ==
  LET nls == {i \in 1..Len(s) : s[i] = "\n"}
  IN  IF nls = {}
        THEN <<s>>
        ELSE LET i == CHOOSE k \in nls : \A j \in nls : k <= j
             IN  <<SubSeq(s, 1, i - 1)>> \o SplitLines(SubSeq(s, i + 1, Len(s)))

RECURSIVE Flatten(_)
\* the concatenation of a sequence of texts
Flatten(ss) == IF ss = <<>> THEN <<>> ELSE Head(ss) \o Flatten(Tail(ss))

\* 'data: ' and '[DONE]'
DATA_PREFIX == <<"d", "a", "t", "a", ":", " ">>
DONE_MARKER == <<"[", "D", "O", "N", "E", "]">>

\* JSON.parse(data) on the wire alphabet.  An object with one field is written
\* "{" key value "}", the key being one character:
\*   "c"  {"content": value}
\*   "k"  {"choices":[{"delta":{"content": value}}]}
\*   "t"  {"choices":[{"text": value}]}
\*   "e"  {"delta": value}
\*   "o"  {"other": value}
\* with value a (possibly empty) string; "7" is a JSON number; any other text
\* makes JSON.parse throw.
JsonKeys == {"c", "k", "t", "e", "o"}
JsonFail == [ok |-> FALSE, type |-> "none", key |-> "", value |-> <<>>]
JsonParse(data) ==
  IF /\ Len(data) >= 3
     /\ data[1] = "{"
     /\ data[Len(data)] = "}"
     /\ data[2] \in JsonKeys
     /\ \A i \in 3..(Len(data) - 1) : data[i] \notin {"{", "}", "\n"}
    THEN [ok |-> TRUE, type |-> "object", key |-> data[2],
          value |-> SubSeq(data, 3, Len(data) - 1)]
    ELSE IF data = <<"7">>
      THEN [ok |-> TRUE, type |-> "number", key |-> "", value |-> <<>>]
      ELSE JsonFail

\* parsed.<path> is truthy
Has(parsed, key) ==
  parsed.type = "object" /\ parsed.key = key /\ parsed.value # <<>>

\* the frames a server sends, and the text each puts on the wire
FrameKinds == {"raw", "json", "other", "pad", "done"}
Wire(kind) ==
  CASE kind = "raw" -> DATA_PREFIX \o <<"x", "y">>
    [] kind = "json" -> DATA_PREFIX \o <<"{", "c", "h", "}">>
    [] kind = "other" -> DATA_PREFIX \o <<"{", "o", "h", "}">>
    [] kind = "pad" -> <<" ">> \o DATA_PREFIX \o <<"z", " ">>
    [] kind = "done" -> DATA_PREFIX \o DONE_MARKER

\* n line terminators
Newlines(n) == [i \in 1..n |-> "\n"]

RECURSIVE Encode(_, _, _)
\* the response body for a script: each frame followed by sep newlines; when
\* open, the last line lacks its terminator
Encode(frames, sep, open) ==
  IF frames = <<>>
    THEN <<>>
    ELSE Wire(Head(frames))
           \o (IF Len(frames) = 1 /\ open THEN <<>> ELSE Newlines(sep))
           \o Encode(Tail(frames), sep, open)

\* ================================================================= useSSE
\* The useSSE hook (useSSE.ts:111-408) and processSSEChunk (417-460).

DEFAULT_INITIAL_RETRY_DELAY == 1000
DEFAULT_MAX_RETRY_DELAY == 30000
DEFAULT_MAX_RETRIES == 3

\* connectInternal invocations per hook instance in the model
MaxAttempts == 2
\* frames per response body in the reader specifications
MaxFrames == 3
\* largest number of characters one read delivers
MaxChunk == 8

AttemptIds == 1..MaxAttempts

\* HTTP statuses the stream endpoint answers with in the model
HookStatuses == {200, 404, 429, 500}

\* the try/catch of processSSEChunk (useSSE.ts:434-458): the chunk made of
\* the data of a line
ProcessData(data) ==
  LET parsed == JsonParse(data)
  IN  IF ~parsed.ok
        THEN <<data>>
        ELSE IF Has(parsed, "k") \/ Has(parsed, "t")
                  \/ Has(parsed, "c") \/ Has(parsed, "e")
          THEN <<parsed.value>>
          ELSE <<data>>

\* processSSEChunk(line, onChunk): the chunks passed to onChunk (none or one)
MutProcessNoDoneTest(line) ==
  LET trimmed == Trim(line)
  IN  IF trimmed = <<>> \/ StartsWith(trimmed, <<":">>)
        THEN <<>>
        ELSE IF ~StartsWith(trimmed, DATA_PREFIX)
          THEN <<>>
          ELSE ProcessData(SubSeq(trimmed, Len(DATA_PREFIX) + 1, Len(trimmed)))
ProcessSSEChunk(line) ==
  LET trimmed == Trim(line)
      data == SubSeq(trimmed, Len(DATA_PREFIX) + 1, Len(trimmed))
  IN  IF trimmed = <<>> \/ StartsWith(trimmed, <<":">>)
        THEN <<>>
        ELSE IF ~StartsWith(trimmed, DATA_PREFIX)
          THEN <<>>
          ELSE IF data = DONE_MARKER
            THEN <<>>
            ELSE ProcessData(data)

RECURSIVE ProcessLines(_)
\* the `for (const line of lines)` loop of the hook: all chunks, in order
ProcessLines(lines) ==
  IF lines = <<>>
    THEN <<>>
    ELSE ProcessSSEChunk(Head(lines)) \o ProcessLines(Tail(lines))

\* `buffer = lines.pop() || ''`
MutKeepNothing(lines) == <<>>
KeptBuffer(lines) == Last(lines)

\* the lines left after lines.pop()
CompleteLines(lines) == SubSeq(lines, 1, Len(lines) - 1)

NoAttempt == [pc |-> "unused", buffer |-> <<>>, pos |-> 0, httpStatus |-> 0]

\* The hook before connect().  body is the text the server streams in a 2xx
\* response, frames/sep/open the script it was encoded from; att holds one
\* entry per connectInternal invocation (pc: where it is suspended), aborted
\* the AbortControllers that were aborted, timeoutTimers and retryTimers the
\* armed timers (named by the invocation that armed them); chunks, opens,
\* completes, errors and delays log the callbacks and the retry delays.
\* midLine: some read ended inside a line; cancelled, errorsAtCancel:
\* disconnect() was called on a connecting or streaming session since the
\* last connect(), and the value of errors at that call; disconnected:
\* disconnect() was called since the last connect().
HookIdleWith(frames, sep, open, maxRetries, maxRetryDelay) ==
  [live |-> TRUE, frames |-> frames, sep |-> sep, open |-> open,
   body |-> Encode(frames, sep, open),
   initialRetryDelay |-> DEFAULT_INITIAL_RETRY_DELAY,
   maxRetryDelay |-> maxRetryDelay,
   maxRetries |-> maxRetries,
   status |-> "idle", text |-> <<>>, error |-> "none", retryCount |-> 0,
   isConnected |-> FALSE,
   abortControllerRef |-> 0, retryTimeoutRef |-> 0, retryCountRef |-> 0,
   fullTextRef |-> <<>>, isConnectingRef |-> FALSE,
   att |-> [i \in AttemptIds |-> NoAttempt],
   started |-> 0, aborted |-> {}, timeoutTimers |-> {}, retryTimers |-> {},
   chunks |-> <<>>, opens |-> 0, completes |-> 0, completeText |-> <<>>,
   completeAt |-> 0, errors |-> 0, delays |-> <<>>,
   midLine |-> FALSE, cancelled |-> FALSE, errorsAtCancel |-> 0,
   disconnected |-> FALSE]

HookIdle ==
  HookIdleWith(<<>>, 1, FALSE, DEFAULT_MAX_RETRIES, DEFAULT_MAX_RETRY_DELAY)

\* cleanup() (useSSE.ts:144-158)
MutCleanupReportsAbort(h) ==
  [h EXCEPT !.errors = IF h.abortControllerRef # 0 THEN @ + 1 ELSE @,
            !.aborted = IF h.abortControllerRef # 0
                          THEN @ \cup {h.abortControllerRef} ELSE @,
            !.abortControllerRef = 0,
            !.retryTimers = @ \ {h.retryTimeoutRef},
            !.retryTimeoutRef = 0,
            !.isConnectingRef = FALSE]
HookCleanup(h) ==
  LET h1 == IF h.abortControllerRef # 0
              THEN [h EXCEPT !.aborted = @ \cup {h.abortControllerRef},
                             !.abortControllerRef = 0]
              ELSE h
      h2 == IF h1.retryTimeoutRef # 0
              THEN [h1 EXCEPT !.retryTimers = @ \ {h1.retryTimeoutRef},
                              !.retryTimeoutRef = 0]
              ELSE h1
  IN  [h2 EXCEPT !.isConnectingRef = FALSE]

\* getRetryDelay() (useSSE.ts:192-195)
HookGetRetryDelay(h) ==
  Min(h.initialRetryDelay * Pow(2, h.retryCountRef), h.maxRetryDelay)

\* scheduleRetry(error) called by invocation id (useSSE.ts:198-225)
MutScheduleRetryOneMore(h, id, code, retryable) ==
  IF h.retryCountRef <= h.maxRetries /\ retryable
    THEN [h EXCEPT !.delays = Append(@, HookGetRetryDelay(h)),
                   !.retryCountRef = @ + 1,
                   !.status = "connecting",
                   !.error = code,
                   !.retryCount = h.retryCountRef + 1,
                   !.retryTimeoutRef = id,
                   !.retryTimers = @ \cup {id}]
    ELSE [h EXCEPT !.status = "error",
                   !.error = code,
                   !.isConnected = FALSE,
                   !.errors = @ + 1]
HookScheduleRetry(h, id, code, retryable) ==
  IF h.retryCountRef < h.maxRetries /\ retryable
    THEN [h EXCEPT !.delays = Append(@, HookGetRetryDelay(h)),
                   !.retryCountRef = @ + 1,
                   !.status = "connecting",
                   !.error = code,
                   !.retryCount = h.retryCountRef + 1,
                   !.retryTimeoutRef = id,
                   !.retryTimers = @ \cup {id}]
    ELSE [h EXCEPT !.status = "error",
                   !.error = code,
                   !.isConnected = FALSE,
                   !.errors = @ + 1]

\* connectInternal() up to `await fetch(...)` (useSSE.ts:228-265)
MutConnectNoCleanup(h) ==
  LET id == h.started + 1
  IN  [h EXCEPT !.isConnectingRef = TRUE,
                !.abortControllerRef = id,
                !.status = "connecting",
                !.error = "none",
                !.timeoutTimers = @ \cup {id},
                !.started = id,
                !.att[id] = [NoAttempt EXCEPT !.pc = "fetch"]]
HookConnectInternal(h) ==
  IF h.isConnectingRef
    THEN h
    ELSE LET id == h.started + 1
             h1 == HookCleanup([h EXCEPT !.isConnectingRef = TRUE])
         IN  [h1 EXCEPT !.abortControllerRef = id,
                        !.status = "connecting",
                        !.error = "none",
                        !.timeoutTimers = @ \cup {id},
                        !.started = id,
                        !.att[id] = [NoAttempt EXCEPT !.pc = "fetch"]]

\* the outer `finally` of connectInternal; invocation id has returned and its
\* locals are gone
HookFinally(h, id) ==
  [h EXCEPT !.isConnectingRef = FALSE, !.att[id] = [NoAttempt EXCEPT !.pc = "ended"]]

\* the AbortError branches (useSSE.ts:355-361, 374-380)
HookAbortBranch(h) == [h EXCEPT !.status = "idle", !.isConnected = FALSE]

\* connect() (useSSE.ts:395-400)
HookConnect ==
  /\ hook.live
  /\ hook.started < MaxAttempts
  /\ hook' = HookConnectInternal(
               [hook EXCEPT !.retryCountRef = 0, !.fullTextRef = <<>>,
                            !.delays = <<>>, !.cancelled = FALSE,
                            !.disconnected = FALSE])
  /\ UNCHANGED <<http, ws, chat, poll, app, net, ui>>

\* disconnect() (useSSE.ts:168-175)
HookDisconnect ==
  /\ hook.live
  /\ hook' = [HookCleanup(hook) EXCEPT
                !.status = "idle", !.isConnected = FALSE,
                !.cancelled = hook.cancelled
                              \/ hook.status \in {"connecting", "streaming"},
                !.errorsAtCancel = IF hook.cancelled THEN @ ELSE hook.errors,
                !.disconnected = TRUE]
  /\ UNCHANGED <<http, ws, chat, poll, app, net, ui>>

\* reset() (useSSE.ts:178-189)
HookReset ==
  /\ hook.live
  /\ hook' = [HookCleanup(hook) EXCEPT
                !.retryCountRef = 0, !.fullTextRef = <<>>,
                !.status = "idle", !.text = <<>>, !.error = "none",
                !.retryCount = 0, !.isConnected = FALSE, !.delays = <<>>]
  /\ UNCHANGED <<http, ws, chat, poll, app, net, ui>>

\* the timeout timer armed by invocation id fires:
\* abortControllerRef.current?.abort() (useSSE.ts:261-263)
HookTimeoutFires ==
  /\ \E id \in hook.timeoutTimers :
       hook' = [hook EXCEPT
                  !.timeoutTimers = @ \ {id},
                  !.aborted = IF hook.abortControllerRef # 0
                                THEN @ \cup {hook.abortControllerRef} ELSE @]
  /\ UNCHANGED <<http, ws, chat, poll, app, net, ui>>

\* a retry timer fires: connectInternal() (useSSE.ts:211-213)
HookRetryFires ==
  /\ hook.started < MaxAttempts
  /\ \E id \in hook.retryTimers :
       hook' = HookConnectInternal([hook EXCEPT !.retryTimers = @ \ {id}])
  /\ UNCHANGED <<http, ws, chat, poll, app, net, ui>>

\* fetch of an aborted invocation rejects with AbortError
HookFetchAborted ==
  /\ \E id \in AttemptIds :
       /\ hook.att[id].pc = "fetch"
       /\ id \in hook.aborted
       /\ hook' = HookFinally(HookAbortBranch(hook), id)
  /\ UNCHANGED <<http, ws, chat, poll, app, net, ui>>

\* fetch rejects with a transport failure (useSSE.ts:381-388)
HookFetchFails ==
  /\ \E id \in AttemptIds :
       /\ hook.att[id].pc = "fetch"
       /\ id \notin hook.aborted
       /\ hook' = HookFinally(HookScheduleRetry(hook, id, "FETCH_ERROR", TRUE), id)
  /\ UNCHANGED <<http, ws, chat, poll, app, net, ui>>

\* fetch resolves: clearTimeout, then the response.ok and response.body tests
\* (useSSE.ts:265-311)
HookResponse ==
  /\ \E id \in AttemptIds, s \in HookStatuses, hasBody \in BOOLEAN :
       /\ hook.att[id].pc = "fetch"
       /\ id \notin hook.aborted
       /\ LET h1 == [hook EXCEPT !.timeoutTimers = @ \ {id},
                                 !.att[id].httpStatus = s]
          IN  hook' =
                IF ~ResponseOk(s)
                  THEN [h1 EXCEPT !.att[id].pc = "errbody"]
                  ELSE IF ~hasBody
                    THEN HookFinally(HookScheduleRetry(h1, id, "NO_BODY", TRUE), id)
                    ELSE [h1 EXCEPT !.status = "streaming",
                                    !.isConnected = TRUE,
                                    !.retryCount = h1.retryCountRef,
                                    !.opens = @ + 1,
                                    !.att[id].pc = "read"]
  /\ UNCHANGED <<http, ws, chat, poll, app, net, ui>>

\* `await response.json()` of an error response settles, resolved or rejected
\* (the rejection is swallowed), then scheduleRetry (useSSE.ts:272-287)
HookErrBodySettles ==
  /\ \E id \in AttemptIds :
       /\ hook.att[id].pc = "errbody"
       /\ LET s == hook.att[id].httpStatus
          IN  hook' = HookFinally(
                        HookScheduleRetry(hook, id, "HTTP_ERROR",
                                          s >= 500 \/ s = 429), id)
  /\ UNCHANGED <<http, ws, chat, poll, app, net, ui>>

\* reader.read() resolves with the next n characters (useSSE.ts:317-341)
HookRead ==
  /\ \E id \in AttemptIds :
       /\ hook.att[id].pc = "read"
       /\ id \notin hook.aborted
       /\ \E n \in 1..MaxChunk :
            /\ hook.att[id].pos + n <= Len(hook.body)
            /\ LET a == hook.att[id]
                   lines == SplitLines(a.buffer \o SubSeq(hook.body, a.pos + 1, a.pos + n))
                   out == ProcessLines(CompleteLines(lines))
               IN  hook' = [hook EXCEPT
                              !.att[id].buffer = KeptBuffer(lines),
                              !.att[id].pos = a.pos + n,
                              !.fullTextRef = @ \o Flatten(out),
                              !.chunks = @ \o out,
                              !.midLine = @ \/ Last(lines) # <<>>]
  /\ UNCHANGED <<http, ws, chat, poll, app, net, ui>>

\* reader.read() resolves with done: the rest of the buffer is processed, the
\* state becomes 'completed' and onComplete fires (useSSE.ts:319-352)
HookReadDone ==
  /\ \E id \in AttemptIds :
       /\ hook.att[id].pc = "read"
       /\ id \notin hook.aborted
       /\ hook.att[id].pos = Len(hook.body)
       /\ LET a == hook.att[id]
              out == IF Trim(a.buffer) # <<>> THEN ProcessSSEChunk(a.buffer) ELSE <<>>
              full == hook.fullTextRef \o Flatten(out)
          IN  hook' = HookFinally(
                        [hook EXCEPT
                           !.fullTextRef = full,
                           !.chunks = @ \o out,
                           !.status = "completed",
                           !.text = full,
                           !.isConnected = FALSE,
                           !.completes = @ + 1,
                           !.completeText = full,
                           !.completeAt = Len(hook.chunks \o out)], id)
  /\ UNCHANGED <<http, ws, chat, poll, app, net, ui>>

\* reader.read() of an aborted invocation rejects with AbortError
HookReadAborted ==
  /\ \E id \in AttemptIds :
       /\ hook.att[id].pc = "read"
       /\ id \in hook.aborted
       /\ hook' = HookFinally(HookAbortBranch(hook), id)
  /\ UNCHANGED <<http, ws, chat, poll, app, net, ui>>

\* reader.read() rejects with a transport failure (useSSE.ts:362-369)
HookReadFails ==
  /\ \E id \in AttemptIds :
       /\ hook.att[id].pc = "read"
       /\ id \notin hook.aborted
       /\ hook' = HookFinally(HookScheduleRetry(hook, id, "READ_ERROR", TRUE), id)
  /\ UNCHANGED <<http, ws, chat, poll, app, net, ui>>

NextHook ==
  \/ HookConnect
  \/ HookDisconnect
  \/ HookReset
  \/ HookTimeoutFires
  \/ HookRetryFires
  \/ HookFetchAborted
  \/ HookFetchFails
  \/ HookResponse
  \/ HookErrBodySettles
  \/ HookRead
  \/ HookReadDone
  \/ HookReadAborted
  \/ HookReadFails

\* ============================================================= streamChat
\* streamChat(message, sessionId, options) (convex.ts:735-869).

\* the handling of one complete line (convex.ts:805-832): whether it is the
\* [DONE] marker, and the chunks passed to onMessage otherwise
ChatLine(line) ==
  LET trimmed == Trim(line)
      data == SubSeq(trimmed, Len(DATA_PREFIX) + 1, Len(trimmed))
      parsed == JsonParse(data)
  IN  IF ~StartsWith(trimmed, DATA_PREFIX)
        THEN [done |-> FALSE, out |-> <<>>]
        ELSE IF data = DONE_MARKER
          THEN [done |-> TRUE, out |-> <<>>]
          ELSE IF ~parsed.ok
            THEN [done |-> FALSE, out |-> <<data>>]
            ELSE IF Has(parsed, "k") \/ Has(parsed, "c")
              THEN [done |-> FALSE, out |-> <<parsed.value>>]
              ELSE [done |-> FALSE, out |-> <<>>]

RECURSIVE ChatLines(_)
\* the `for (const line of lines)` loop: the chunks delivered, and whether the
\* loop returned at a [DONE] line (the lines after it are not looked at)
ChatLines(lines) ==
  IF lines = <<>>
    THEN [done |-> FALSE, out |-> <<>>]
    ELSE LET first == ChatLine(Head(lines))
             rest == ChatLines(Tail(lines))
         IN  IF first.done
               THEN [done |-> TRUE, out |-> <<>>]
               ELSE [done |-> rest.done, out |-> first.out \o rest.out]

\* the remaining buffer after the loop (convex.ts:836-844): raw data, no
\* [DONE] test and no JSON.parse
ChatRemaining(buffer) ==
  LET trimmed == Trim(buffer)
  IN  IF trimmed # <<>> /\ StartsWith(trimmed, DATA_PREFIX)
        THEN <<SubSeq(trimmed, Len(DATA_PREFIX) + 1, Len(trimmed))>>
        ELSE <<>>

\* streamChat before the call.  aborted is options.signal.aborted; chunks,
\* starts, completes and errors log onMessage, onStart, onComplete and the
\* codes passed to onError; midLine: some read ended inside a line.
ChatIdleWith(frames, sep, open) ==
  [live |-> TRUE, frames |-> frames, sep |-> sep, open |-> open,
   body |-> Encode(frames, sep, open),
   pc |-> "idle", aborted |-> FALSE, httpStatus |-> 0,
   buffer |-> <<>>, pos |-> 0, fullResponse |-> <<>>,
   chunks |-> <<>>, starts |-> 0, completes |-> 0, completeText |-> <<>>,
   completeAt |-> 0, errors |-> <<>>, midLine |-> FALSE]

ChatIdle == ChatIdleWith(<<>>, 1, FALSE)

\* onError(error) then return
ChatFail(c, code) == [c EXCEPT !.pc = "ended", !.errors = Append(@, code)]

\* onComplete(fullResponse) then return
ChatComplete(c) ==
  [c EXCEPT !.pc = "ended", !.completes = @ + 1,
            !.completeText = c.fullResponse, !.completeAt = Len(c.chunks)]

\* one resolved read of n characters, through the line loop and back to the
\* top of the while loop, where signal.aborted is tested; abortInCallback: an
\* onMessage callback of this read aborted the signal
ChatReadStep(c, n, abortInCallback) ==
  LET lines == SplitLines(c.buffer \o SubSeq(c.body, c.pos + 1, c.pos + n))
      res == ChatLines(CompleteLines(lines))
      c1 == [c EXCEPT !.buffer = KeptBuffer(lines),
                      !.pos = c.pos + n,
                      !.fullResponse = @ \o Flatten(res.out),
                      !.chunks = @ \o res.out,
                      !.midLine = @ \/ Last(lines) # <<>>,
                      !.aborted = @ \/ abortInCallback]
  IN  IF res.done
        THEN ChatComplete(c1)
        ELSE IF c1.aborted
          THEN ChatFail(c1, "ABORTED")
          ELSE c1

\* streamChat is called and fetch issued
ChatStart ==
  /\ chat.live
  /\ chat.pc = "idle"
  /\ chat' = [chat EXCEPT !.pc = "fetch"]
  /\ UNCHANGED <<http, ws, hook, poll, app, net, ui>>

\* the caller aborts options.signal while the call is suspended
ChatAbort ==
  /\ chat.pc \in {"fetch", "errbody", "read"}
  /\ ~chat.aborted
  /\ chat' = [chat EXCEPT !.aborted = TRUE]
  /\ UNCHANGED <<http, ws, hook, poll, app, net, ui>>

\* fetch rejects: AbortError when aborted, otherwise a transport failure
\* (convex.ts:859-868)
ChatFetchRejects ==
  /\ chat.pc = "fetch"
  /\ chat' = ChatFail(chat, IF chat.aborted THEN "ABORTED" ELSE "REQUEST_ERROR")
  /\ UNCHANGED <<http, ws, hook, poll, app, net, ui>>

\* fetch resolves (convex.ts:760-785)
ChatResponse ==
  /\ chat.pc = "fetch"
  /\ ~chat.aborted
  /\ \E s \in Statuses, hasBody \in BOOLEAN :
       chat' =
         IF ~ResponseOk(s)
           THEN [chat EXCEPT !.pc = "errbody", !.httpStatus = s]
           ELSE IF ~hasBody
             THEN ChatFail([chat EXCEPT !.httpStatus = s], "NO_BODY")
             ELSE [chat EXCEPT !.pc = "read", !.httpStatus = s, !.starts = @ + 1]
  /\ UNCHANGED <<http, ws, hook, poll, app, net, ui>>

\* `await response.json()` of an error response settles (convex.ts:761-772)
ChatErrBodySettles ==
  /\ chat.pc = "errbody"
  /\ \E code \in {"UNKNOWN_ERROR", "HTTP_ERROR"} :
       chat' = ChatFail(chat, code)
  /\ UNCHANGED <<http, ws, hook, poll, app, net, ui>>

\* reader.read() resolves with the next n characters
ChatRead ==
  /\ chat.pc = "read"
  /\ ~chat.aborted
  /\ \E n \in 1..MaxChunk :
       /\ chat.pos + n <= Len(chat.body)
       /\ chat' = ChatReadStep(chat, n, FALSE)
  /\ UNCHANGED <<http, ws, hook, poll, app, net, ui>>

\* as ChatRead, with an onMessage callback of the read aborting the signal
ChatReadCallbackAborts ==
  /\ chat.pc = "read"
  /\ ~chat.aborted
  /\ \E n \in 1..MaxChunk :
       /\ chat.pos + n <= Len(chat.body)
       /\ ChatReadStep(chat, n, FALSE).chunks # chat.chunks
       /\ chat' = ChatReadStep(chat, n, TRUE)
  /\ UNCHANGED <<http, ws, hook, poll, app, net, ui>>

\* reader.read() resolves with done (convex.ts:797, 836-846)
ChatReadDone ==
  /\ chat.pc = "read"
  /\ ~chat.aborted
  /\ chat.pos = Len(chat.body)
  /\ LET out == ChatRemaining(chat.buffer)
     IN  chat' = ChatComplete([chat EXCEPT !.fullResponse = @ \o Flatten(out),
                                           !.chunks = @ \o out])
  /\ UNCHANGED <<http, ws, hook, poll, app, net, ui>>

\* reader.read() rejects: AbortError when aborted, otherwise a transport
\* failure (convex.ts:847-855)
ChatReadRejects ==
  /\ chat.pc = "read"
  /\ chat' = ChatFail(chat, IF chat.aborted THEN "ABORTED" ELSE "STREAM_ERROR")
  /\ UNCHANGED <<http, ws, hook, poll, app, net, ui>>

NextChat ==
  \/ ChatStart
  \/ ChatAbort
  \/ ChatFetchRejects
  \/ ChatResponse
  \/ ChatErrBodySettles
  \/ ChatRead
  \/ ChatReadCallbackAborts
  \/ ChatReadDone
  \/ ChatReadRejects

\* ============================================================== usePolling
\* The usePolling hook (screenshots/TEST_RESULTS.md:301-558).

DEFAULT_INTERVAL == 3000
DEFAULT_INITIAL_DELAY == 0
DEFAULT_MAX_BACKOFF_DELAY == 30000

\* largest maxPolls option in the model
MaxPolls == 3
\* pollFn invocations per hook instance in the life-cycle specification
MaxProbes == 3

\* What a pollFn call settles with: a result, told apart by stopWhen(result)
\* and isError(result), or a rejection.
PollResults == {"pending", "flagged", "done", "failed"}
PollOutcomes == PollResults \cup {"throw"}

\* stopWhen(result)
StopWhen(r) == r \in {"done", "failed"}

\* isError?.(result)
IsError(r) == r \in {"flagged", "failed"}

\* The hook before start().  timers holds the armed timers (id, and kind:
\* "initial" armed by start(), "next" armed by scheduleNextPoll()); inflight
\* counts the pending pollFn calls made by the loop and by poll(); probes,
\* outcomes, polls, successes and errors log the pollFn calls, what they
\* settled with, onPoll, onSuccess and the codes passed to onError.  halted:
\* stop() was called in status 'polling' and neither start() nor poll() since;
\* successesAtStop, errorsAtStop: the callback counts at that call;
\* startIgnored: a start() call returned at its isPollingRef test;
\* wasReset: reset() was called and neither start() nor poll() since;
\* completes, fails: the onComplete and onFail calls made by the onSuccess
\* handler that useJobStatusPolling and useOnboardingPolling pass.
PollIdleWith(maxPolls, initialDelay, maxBackoffDelay) ==
  [live |-> TRUE,
   interval |-> DEFAULT_INTERVAL, maxPolls |-> maxPolls,
   initialDelay |-> initialDelay, backoffOnError |-> TRUE,
   maxBackoffDelay |-> maxBackoffDelay,
   status |-> "idle", data |-> "none", error |-> "none", pollCount |-> 0,
   isPolling |-> FALSE, lastPollTime |-> FALSE, nextPollTime |-> FALSE,
   timeoutRef |-> 0, pollCountRef |-> 0, isPollingRef |-> FALSE,
   currentIntervalRef |-> DEFAULT_INTERVAL, consecutiveErrorsRef |-> 0,
   timers |-> {}, inflight |-> [loop |-> 0, manual |-> 0],
   probes |-> 0, outcomes |-> <<>>, polls |-> 0, successes |-> 0,
   errors |-> <<>>,
   halted |-> FALSE, successesAtStop |-> 0, errorsAtStop |-> 0,
   startIgnored |-> FALSE, completes |-> 0, fails |-> 0, wasReset |-> FALSE]

PollIdle == PollIdleWith(MaxPolls, DEFAULT_INITIAL_DELAY, DEFAULT_MAX_BACKOFF_DELAY)
PollOff == [PollIdle EXCEPT !.live = FALSE]

\* setTimeout: a timer id not in use
NewTimer(p) ==
  CHOOSE id \in 1..(Cardinality(p.timers) + 1) :
    \A t \in p.timers : t.id # id

\* cleanup() (335-341)
PollCleanup(p) ==
  [p EXCEPT !.timers = {t \in @ : t.id # p.timeoutRef},
            !.timeoutRef = 0,
            !.isPollingRef = FALSE]

\* `if (isPollingRef.current) return` of start() (508)
MutStartNeverBlocked(p) == FALSE
StartBlocked(p) == p.isPollingRef

\* `currentPollCount >= maxPolls` (426)
MutMaxPollsOneLate(count, maxPolls) == count > maxPolls
MaxPollsReached(count, maxPolls) == count >= maxPolls

\* `!shouldStop && isPollingRef.current` (499, 531, 539)
MutLoopIgnoresStop(shouldStop, isPollingRef) == isPollingRef
LoopGoesOn(shouldStop, isPollingRef) == ~shouldStop /\ isPollingRef

\* the backoff delay of the catch block of executePoll (449-452)
PollBackoffDelay(p, consecutiveErrors) ==
  Min(p.interval * Pow(2, consecutiveErrors - 1), p.maxBackoffDelay)

\* handleSuccess of useJobStatusPolling (617-627) and useOnboardingPolling
\* (710-720), the onSuccess they pass to usePolling; the result "done" has
\* status 'completed', "failed" has status 'failed', the others 'pending' or
\* 'processing', so that StopWhen and IsError are the stopWhen (606-610,
\* 699-703) and isError (612-615, 705-708) of the two hooks
HandleSuccess(p, r) ==
  IF r = "done"
    THEN [p EXCEPT !.completes = @ + 1]
    ELSE IF r = "failed"
      THEN [p EXCEPT !.fails = @ + 1]
      ELSE p

\* pollFn is called: executePoll up to its await (379-381)
ProbeStarts(p, origin) ==
  [p EXCEPT !.inflight[origin] = @ + 1, !.probes = @ + 1]

\* executePoll after pollFn resolved with result r (382-442): the state after
\* it and the value returned
ExecutePollResolved(p, r) ==
  LET count == p.pollCountRef + 1
      p1 == [p EXCEPT !.consecutiveErrorsRef = 0,
                      !.currentIntervalRef = p.interval,
                      !.pollCountRef = count,
                      !.data = r, !.pollCount = count,
                      !.lastPollTime = TRUE, !.error = "none",
                      !.polls = @ + 1,
                      !.outcomes = Append(@, r)]
  IN  IF StopWhen(r)
        THEN IF IsError(r)
          THEN [stop |-> TRUE,
                p |-> [p1 EXCEPT !.status = "error", !.isPolling = FALSE,
                                 !.error = "POLL_RESULT_ERROR",
                                 !.errors = Append(@, "POLL_RESULT_ERROR")]]
          ELSE [stop |-> TRUE,
                p |-> HandleSuccess(
                        [p1 EXCEPT !.status = "success", !.isPolling = FALSE,
                                   !.successes = @ + 1], r)]
        ELSE IF MaxPollsReached(count, p.maxPolls)
          THEN [stop |-> TRUE,
                p |-> [p1 EXCEPT !.status = "error", !.isPolling = FALSE,
                                 !.error = "MAX_POLLS_EXCEEDED",
                                 !.errors = Append(@, "MAX_POLLS_EXCEEDED")]]
          ELSE [stop |-> FALSE, p |-> p1]

\* executePoll after pollFn rejected (443-471)
ExecutePollRejected(p) ==
  LET n == p.consecutiveErrorsRef + 1
  IN  [stop |-> TRUE,
       p |-> [p EXCEPT !.consecutiveErrorsRef = n,
                       !.currentIntervalRef =
                          IF p.backoffOnError THEN PollBackoffDelay(p, n) ELSE @,
                       !.status = "error", !.error = "POLL_ERROR",
                       !.isPolling = FALSE,
                       !.errors = Append(@, "POLL_ERROR"),
                       !.outcomes = Append(@, "throw")]]

\* executePoll from its await to its return
ExecutePollSettled(p, o) ==
  IF o = "throw" THEN ExecutePollRejected(p) ELSE ExecutePollResolved(p, o)

\* scheduleNextPoll() (486-503)
ScheduleNextPoll(p) ==
  IF ~p.isPollingRef
    THEN p
    ELSE LET id == NewTimer(p)
         IN  [p EXCEPT !.nextPollTime = TRUE,
                       !.timeoutRef = id,
                       !.timers = @ \cup {[id |-> id, kind |-> "next"]}]

\* start() (506-544)
PollStart ==
  /\ poll.live
  /\ poll' =
       IF StartBlocked(poll)
         THEN [poll EXCEPT !.startIgnored = TRUE]
         ELSE LET p1 == [poll EXCEPT !.isPollingRef = TRUE,
                                     !.pollCountRef = 0,
                                     !.consecutiveErrorsRef = 0,
                                     !.currentIntervalRef = poll.interval,
                                     !.status = "polling",
                                     !.isPolling = TRUE,
                                     !.error = "none",
                                     !.halted = FALSE,
                                     !.wasReset = FALSE]
              IN  IF poll.initialDelay > 0
                    THEN LET id == NewTimer(p1)
                         IN  [p1 EXCEPT !.nextPollTime = TRUE,
                                        !.timeoutRef = id,
                                        !.timers = @ \cup {[id |-> id, kind |-> "initial"]}]
                    ELSE ProbeStarts(p1, "loop")
  /\ UNCHANGED <<http, ws, hook, chat, app, net, ui>>

\* stop() (368-376)
PollStop ==
  /\ poll.live
  /\ poll' = [PollCleanup(poll) EXCEPT
                !.status = IF @ = "polling" THEN "stopped" ELSE @,
                !.isPolling = FALSE,
                !.nextPollTime = FALSE,
                !.halted = @ \/ poll.status = "polling",
                !.successesAtStop = IF poll.status = "polling" THEN poll.successes ELSE @,
                !.errorsAtStop = IF poll.status = "polling" THEN Len(poll.errors) ELSE @]
  /\ UNCHANGED <<http, ws, hook, chat, app, net, ui>>

\* reset() (351-365)
PollReset ==
  /\ poll.live
  /\ poll' = [PollCleanup(poll) EXCEPT
                !.pollCountRef = 0,
                !.consecutiveErrorsRef = 0,
                !.currentIntervalRef = poll.interval,
                !.status = "idle", !.data = "none", !.error = "none",
                !.pollCount = 0, !.isPolling = FALSE,
                !.lastPollTime = FALSE, !.nextPollTime = FALSE,
                !.halted = FALSE, !.wasReset = TRUE]
  /\ UNCHANGED <<http, ws, hook, chat, app, net, ui>>

\* poll() (547-549): executePoll outside the loop
PollManual ==
  /\ poll.live
  /\ poll' = ProbeStarts([poll EXCEPT !.halted = FALSE, !.wasReset = FALSE],
                          "manual")
  /\ UNCHANGED <<http, ws, hook, chat, app, net, ui>>

\* a timer fires: the callback of start() (529-535) calls executePoll, that of
\* scheduleNextPoll() (495-502) first tests isPollingRef
PollTimerFires ==
  /\ \E t \in poll.timers :
       LET p1 == [poll EXCEPT !.timers = @ \ {t}]
       IN  poll' = IF t.kind = "next" /\ ~poll.isPollingRef
                     THEN p1
                     ELSE ProbeStarts(p1, "loop")
  /\ UNCHANGED <<http, ws, hook, chat, app, net, ui>>

\* a pollFn call of the loop settles: executePoll returns and the loop goes on
\* or not (499-501, 530-534, 538-542)
PollLoopProbeSettles ==
  /\ poll.inflight.loop > 0
  /\ \E o \in PollOutcomes :
       LET res == ExecutePollSettled([poll EXCEPT !.inflight.loop = @ - 1], o)
       IN  poll' = IF LoopGoesOn(res.stop, res.p.isPollingRef)
                     THEN ScheduleNextPoll(res.p)
                     ELSE res.p
  /\ UNCHANGED <<http, ws, hook, chat, app, net, ui>>

\* a pollFn call of poll() settles
PollManualProbeSettles ==
  /\ poll.inflight.manual > 0
  /\ \E o \in PollOutcomes :
       poll' = ExecutePollSettled([poll EXCEPT !.inflight.manual = @ - 1], o).p
  /\ UNCHANGED <<http, ws, hook, chat, app, net, ui>>

\* the steps that call pollFn, while the model's budget of calls lasts
BoundedPollStart == poll.probes < MaxProbes /\ PollStart
BoundedPollManual == poll.probes < MaxProbes /\ PollManual
BoundedPollTimerFires == poll.probes < MaxProbes /\ PollTimerFires

NextPoll ==
  \/ BoundedPollStart
  \/ PollStop
  \/ PollReset
  \/ BoundedPollManual
  \/ BoundedPollTimerFires
  \/ PollLoopProbeSettles
  \/ PollManualProbeSettles

\* ============================================================== the application flow
\* useAstroAuth (hooks/useAstroAuth.ts), App (App.tsx:123-171) and the submit
\* handler of OnboardingForm (components/OnboardingForm.tsx:26-73).
\* hooks/useAstroAuth.ts declares the hook twice: lines 5-67 decide by the
\* status field of the profile, lines 72-127 by HTTP 404.  Which of the two a
\* build runs is not fixed by the source, so both are modelled (variant
\* "status" and variant "404").

\* `const maxAttempts = 30` of handleSubmit (OnboardingForm.tsx:41)
maxAttempts == 30

\* What the profile request of checkAuth settles with: a response (its HTTP
\* status and the status field of its body, "invalid" for a body that is not
\* JSON), or a rejection of fetch (status 0).
ProfileResponses ==
  {[status |-> 200, body |-> b] : b \in {"completed", "processing", "failed", "invalid"}}
    \cup {[status |-> c, body |-> "none"] : c \in {404, 401, 500, 403, 0}}

\* The application before the effect of useAstroAuth has run.  check: where
\* checkAuth is; api: App has built its client (App.tsx:129-134, taken to
\* happen with the state change that triggers it); form*: the state of
\* OnboardingForm and the locals of handleSubmit.  Logs: checks, the requests
\* checkAuth made; initial, what its request settled with; waits, fetches,
\* others, failedAt: the timer waits and getProfile calls of the current
\* submit, how many of those calls did not report 'completed' and the call
\* that first reported 'failed'; submitResult: what onboard() settled with;
\* polledOnce, sawCompleted: getProfile was called by the form, and reported
\* 'completed'.
AppIdleWith(variant, hasToken) ==
  [live |-> TRUE, variant |-> variant, hasToken |-> hasToken,
   status |-> "loading", token |-> FALSE, error |-> "none",
   isLoading |-> TRUE, isAuthenticated |-> FALSE,
   api |-> FALSE, bypassOnboarding |-> FALSE, bypassChat |-> FALSE,
   check |-> "todo",
   formLoading |-> FALSE, formError |-> "none", formPc |-> "idle",
   attempts |-> 0, pollingComplete |-> FALSE,
   checks |-> 0, initial |-> [status |-> 0, body |-> "unset"],
   waits |-> 0, fetches |-> 0, others |-> 0, failedAt |-> 0,
   submitResult |-> "none", polledOnce |-> FALSE, sawCompleted |-> FALSE]

AppOff == [AppIdleWith("404", FALSE) EXCEPT !.live = FALSE]

\* checkAuth after its request settled, in the hook of lines 5-67: the catch
\* block also takes a body that res.json() cannot parse
CheckAuthByStatus(a, res) ==
  IF res.status = 0 \/ (res.status \in 200..299 /\ res.body = "invalid")
    THEN [a EXCEPT !.error = "connection", !.status = "loading"]
    ELSE IF res.status \in 200..299
      THEN IF res.body = "processing"
             THEN [a EXCEPT !.status = "onboarding"]
             ELSE IF res.body = "completed"
               THEN [a EXCEPT !.status = "ready"]
               ELSE [a EXCEPT !.status = "onboarding"]
      ELSE IF res.status = 401
        THEN [a EXCEPT !.error = "authentication", !.status = "loading"]
        ELSE IF res.status = 500
          THEN [a EXCEPT !.error = "server", !.status = "loading"]
          ELSE [a EXCEPT !.error = "unexpected", !.status = "loading"]

\* checkAuth after its request settled, in the hook of lines 72-127
CheckAuthBy404(a, res) ==
  IF res.status = 0
    THEN [a EXCEPT !.error = "connection", !.status = "loading"]
    ELSE IF res.status = 404
      THEN [a EXCEPT !.status = "onboarding"]
      ELSE IF res.status \in 200..299
        THEN [a EXCEPT !.status = "ready"]
        ELSE IF res.status = 401
          THEN [a EXCEPT !.error = "authentication", !.status = "loading"]
          ELSE IF res.status = 500
            THEN [a EXCEPT !.error = "server", !.status = "loading"]
            ELSE [a EXCEPT !.error = "unexpected", !.status = "loading"]

\* What App renders (App.tsx:136-170)
MutScreenNoFormOnError(a) ==
  IF a.isLoading
    THEN "loading"
    ELSE IF ~a.isAuthenticated
      THEN "auth"
      ELSE IF a.status = "onboarding"
        THEN IF a.api \/ a.error # "none" THEN "onboarding" ELSE "blank"
        ELSE IF (a.status = "ready" /\ a.api) \/ a.bypassChat
          THEN "chat"
          ELSE "blank"
Screen(a) ==
  IF a.isLoading
    THEN "loading"
    ELSE IF ~a.isAuthenticated
      THEN "auth"
      ELSE IF a.status = "onboarding"
                \/ (a.error # "none" /\ ~a.bypassOnboarding /\ ~a.bypassChat)
        THEN IF a.api \/ a.error # "none" THEN "onboarding" ELSE "blank"
        ELSE IF (a.status = "ready" /\ a.api) \/ a.bypassChat
          THEN "chat"
          ELSE "blank"

\* `attempts < maxAttempts && !pollingComplete` (OnboardingForm.tsx:45)
MutPollOnceMore(attempts, pollingComplete) ==
  attempts <= maxAttempts /\ ~pollingComplete
FormLoopContinues(attempts, pollingComplete) ==
  attempts < maxAttempts /\ ~pollingComplete

\* handleSubmit at the head of its loop (OnboardingForm.tsx:45-47), and after
\* the loop (61-63, 70-72)
FormLoopHead(a) ==
  IF FormLoopContinues(a.attempts, a.pollingComplete)
    THEN [a EXCEPT !.attempts = @ + 1, !.waits = @ + 1, !.formPc = "wait"]
    ELSE [a EXCEPT !.formError = IF a.pollingComplete THEN @ ELSE "timeout",
                   !.formLoading = FALSE, !.formPc = "idle"]

\* the effect of useAstroAuth runs checkAuth up to its request
\* (useAstroAuth.ts:13-32, 80-99)
AppCheckAuth ==
  /\ app.live
  /\ app.check = "todo"
  /\ app' = IF ~app.hasToken
              THEN [app EXCEPT !.isAuthenticated = FALSE, !.isLoading = FALSE,
                               !.status = "loading", !.token = FALSE,
                               !.check = "done"]
              ELSE [app EXCEPT !.isAuthenticated = TRUE, !.token = TRUE,
                               !.api = TRUE,
                               !.check = "pending", !.checks = @ + 1]
  /\ UNCHANGED <<http, ws, hook, chat, poll, net, ui>>

\* the request of checkAuth settles (useAstroAuth.ts:34-60, 101-120)
AppCheckSettles ==
  /\ app.check = "pending"
  /\ \E res \in ProfileResponses :
       LET a1 == IF app.variant = "status"
                   THEN CheckAuthByStatus(app, res)
                   ELSE CheckAuthBy404(app, res)
       IN  app' = [a1 EXCEPT !.isLoading = FALSE, !.check = "done",
                             !.initial = res]
  /\ UNCHANGED <<http, ws, hook, chat, poll, net, ui>>

\* the form is submitted (OnboardingForm.tsx:26-39); the submit button is
\* disabled while loading (232)
FormSubmit ==
  /\ app.live
  /\ Screen(app) = "onboarding"
  /\ ~app.formLoading
  /\ app' = [app EXCEPT !.formLoading = TRUE, !.formError = "none",
                        !.formPc = "onboard",
                        !.attempts = 0, !.pollingComplete = FALSE,
                        !.waits = 0, !.fetches = 0, !.others = 0,
                        !.failedAt = 0, !.submitResult = "none"]
  /\ UNCHANGED <<http, ws, hook, chat, poll, net, ui>>

\* api.onboard() settles (OnboardingForm.tsx:39-45, 64-72): with success
\* true, with success false, or it rejects
FormOnboardSettles ==
  /\ app.formPc = "onboard"
  /\ \E o \in {"accepted", "refused", "throw"} :
       LET a1 == [app EXCEPT !.submitResult = o]
       IN  app' = IF o = "accepted"
                    THEN FormLoopHead(a1)
                    ELSE [a1 EXCEPT !.formError = IF o = "refused" THEN "refused" ELSE "submit",
                                    !.formLoading = FALSE, !.formPc = "idle"]
  /\ UNCHANGED <<http, ws, hook, chat, poll, net, ui>>

\* the 2000 ms timer of the loop fires and api.getProfile() is called
\* (OnboardingForm.tsx:47-50)
FormTimerFires ==
  /\ app.formPc = "wait"
  /\ app' = [app EXCEPT !.formPc = "fetch", !.fetches = @ + 1,
                        !.polledOnce = TRUE]
  /\ UNCHANGED <<http, ws, hook, chat, poll, net, ui>>

\* api.getProfile() settles (OnboardingForm.tsx:50-59, 70-72): with success
\* true and the status 'completed', 'processing' or 'failed', with success
\* false, or it rejects; onSuccess is `() => setBypassChat(true)` (App.tsx:152)
FormProfileSettles ==
  /\ app.formPc = "fetch"
  /\ \E o \in {"completed", "processing", "failed", "unsuccessful", "throw"} :
       app' = IF o = "completed"
                THEN [app EXCEPT !.pollingComplete = TRUE, !.bypassChat = TRUE,
                                 !.sawCompleted = TRUE,
                                 !.formLoading = FALSE, !.formPc = "idle"]
                ELSE FormLoopHead(
                       [app EXCEPT !.others = @ + 1,
                                   !.failedAt = IF o = "failed" /\ @ = 0
                                                  THEN app.fetches ELSE @])
  /\ UNCHANGED <<http, ws, hook, chat, poll, net, ui>>

NextApp ==
  \/ AppCheckAuth
  \/ AppCheckSettles
  \/ FormSubmit
  \/ FormOnboardSettles
  \/ FormTimerFires
  \/ FormProfileSettles

\* ============================================================== NetworkMonitor
\* The NetworkMonitor class (components/GlassCard.tsx:148-500).

\* updateHealth() calls per monitor in the model
MaxUpdates == 4
\* largest maxHistorySize option in the model
MaxHistory == 2

\* The metrics the browser reports (GlassCard.tsx:59-74, read at 212-224).  A
\* value that may be null is a sequence: <<>> for null, <<v>> for a value;
\* rtt is in ms and takes the lower end of each band of calculateQuality;
\* downlink is in tenths of Mbit/s (5 is 0.5 Mbit/s), likewise.
NetMetrics ==
  [isOnline : BOOLEAN,
   connectionType : {<<>>} \cup {<<t>> : t \in {"bluetooth", "cellular", "ethernet",
                                                "mixed", "none", "other", "unknown",
                                                "wifi", "wimax"}},
   effectiveType : {<<>>} \cup {<<t>> : t \in {"2g", "3g", "4g", "slow-2g"}},
   rtt : {<<>>} \cup {<<v>> : v \in {0, 50, 100, 300, 500}},
   downlink : {<<>>} \cup {<<v>> : v \in {0, 5, 10, 50, 100}},
   saveData : {<<>>, <<TRUE>>, <<FALSE>>}]

\* `Math.max(0, Math.min(100, score))` (GlassCard.tsx:299)
MutClampBelowOnly(score) == IF score < 0 THEN 0 ELSE score
ClampScore(score) == IF Min(100, score) > 0 THEN Min(100, score) ELSE 0

\* calculateQuality(metrics) (GlassCard.tsx:226-328): the score after the
\* connection type switch, then what each later step adds to it
CalculateQuality(m) ==
  IF ~m.isOnline
    THEN [score |-> 0, level |-> "offline", isHighBandwidth |-> FALSE,
          isLowLatency |-> FALSE, recommendedQuality |-> "none"]
    ELSE
      LET base == 50
          byType == CASE m.connectionType = <<"ethernet">> -> base + 30
                      [] m.connectionType = <<"wifi">> -> base + 25
                      [] m.connectionType = <<"cellular">> -> base + 10
                      [] m.connectionType = <<"bluetooth">> -> base - 10
                      [] m.connectionType = <<"none">> -> 0
                      [] OTHER -> base
          forEffective == CASE m.effectiveType = <<"4g">> -> 15
                            [] m.effectiveType = <<"3g">> -> 5
                            [] m.effectiveType = <<"2g">> -> 0 - 20
                            [] m.effectiveType = <<"slow-2g">> -> 0 - 30
                            [] OTHER -> 0
          forRtt == IF m.rtt = <<>> THEN 0
                    ELSE IF m.rtt[1] < 50 THEN 10
                    ELSE IF m.rtt[1] < 100 THEN 5
                    ELSE IF m.rtt[1] < 300 THEN 0
                    ELSE IF m.rtt[1] < 500 THEN 0 - 10
                    ELSE 0 - 20
          forDownlink == IF m.downlink = <<>> THEN 0
                         ELSE IF m.downlink[1] >= 100 THEN 10
                         ELSE IF m.downlink[1] >= 50 THEN 5
                         ELSE IF m.downlink[1] >= 10 THEN 0
                         ELSE IF m.downlink[1] >= 5 THEN 0 - 10
                         ELSE 0 - 20
          forSaveData == IF m.saveData = <<TRUE>> THEN 0 - 15 ELSE 0
          score == ClampScore(byType + forEffective + forRtt + forDownlink + forSaveData)
      IN  [score |-> score,
           level |-> IF score >= 80 THEN "excellent"
                     ELSE IF score >= 60 THEN "good"
                     ELSE IF score >= 40 THEN "fair"
                     ELSE IF score > 0 THEN "poor"
                     ELSE "offline",
           isHighBandwidth |-> score >= 60 /\ m.downlink # <<>> /\ m.downlink[1] >= 10,
           isLowLatency |-> score >= 60 /\ m.rtt # <<>> /\ m.rtt[1] < 200,
           recommendedQuality |-> IF score >= 80 THEN "high"
                                  ELSE IF score >= 60 THEN "medium"
                                  ELSE IF score >= 40 THEN "low"
                                  ELSE IF score > 0 THEN "audio-only"
                                  ELSE "none"]

\* `newHistory.shift()` (GlassCard.tsx:345)
MutEvictNewest(history) == SubSeq(history, 1, Len(history) - 1)
Evict(history) == Tail(history)

\* updateHealth() (GlassCard.tsx:330-366).  env is what the browser reports;
\* Date.now() is the number of the call; samples logs every history entry made.
UpdateHealth(n) ==
  LET metrics == n.env
      quality == CalculateQuality(metrics)
      timestamp == n.updates + 1
      historyEntry == [timestamp |-> timestamp, isOnline |-> metrics.isOnline,
                       connectionType |-> metrics.connectionType,
                       effectiveType |-> metrics.effectiveType]
      newHistory == Append(n.history, historyEntry)
  IN  [n EXCEPT !.metrics = metrics, !.quality = quality,
                !.lastUpdated = timestamp,
                !.history = IF Len(newHistory) > n.maxHistorySize
                              THEN Evict(newHistory)
                              ELSE newHistory,
                !.previousQuality = <<quality.level>>,
                !.qualityChanges = IF n.previousQuality # <<>>
                                        /\ n.previousQuality # <<quality.level>>
                                     THEN TRUE ELSE @,
                !.updates = timestamp,
                !.samples = Append(@, historyEntry)]

\* new NetworkMonitor(config) (GlassCard.tsx:155-205) while the browser
\* reports env: createInitialHealth, the listeners, the timer when
\* enableHealthChecks, and the first updateHealth()
NetIdleWith(maxHistorySize, enableHealthChecks, env) ==
  UpdateHealth(
    [live |-> TRUE, maxHistorySize |-> maxHistorySize, env |-> env,
     metrics |-> env,
     quality |-> CalculateQuality([env EXCEPT !.connectionType = <<>>,
                                              !.effectiveType = <<>>,
                                              !.rtt = <<>>, !.downlink = <<>>,
                                              !.saveData = <<>>]),
     lastUpdated |-> 0, history |-> <<>>,
     healthCheckTimer |-> enableHealthChecks, listening |-> TRUE,
     previousQuality |-> <<>>, qualityChanges |-> FALSE,
     updates |-> 0, samples |-> <<>>])

\* the metrics the environment moves between in the monitor specification
NetEnvs ==
  {[isOnline |-> o, connectionType |-> <<t>>, effectiveType |-> <<>>,
    rtt |-> <<>>, downlink |-> <<>>, saveData |-> <<>>] :
     o \in BOOLEAN, t \in {"wifi", "none"}}

NetOff ==
  [NetIdleWith(0, FALSE, CHOOSE m \in NetEnvs : ~m.isOnline) EXCEPT !.live = FALSE]

\* the browser goes online: handleOnline (GlassCard.tsx:368-371)
HandleOnline ==
  /\ net.live /\ net.listening /\ ~net.env.isOnline
  /\ net' = UpdateHealth([net EXCEPT !.env.isOnline = TRUE])
  /\ UNCHANGED <<http, ws, hook, chat, poll, app, ui>>

\* the browser goes offline: handleOffline (GlassCard.tsx:373-376)
HandleOffline ==
  /\ net.live /\ net.listening /\ net.env.isOnline
  /\ net' = UpdateHealth([net EXCEPT !.env.isOnline = FALSE])
  /\ UNCHANGED <<http, ws, hook, chat, poll, app, ui>>

\* the connection changes: handleConnectionChange (GlassCard.tsx:378-380)
HandleConnectionChange ==
  /\ net.live /\ net.listening
  /\ \E m \in NetEnvs :
       /\ m.isOnline = net.env.isOnline
       /\ m # net.env
       /\ net' = UpdateHealth([net EXCEPT !.env = m])
  /\ UNCHANGED <<http, ws, hook, chat, poll, app, ui>>

\* the interval timer of startHealthChecks fires (GlassCard.tsx:383-385)
NetTimerFires ==
  /\ net.live /\ net.healthCheckTimer
  /\ net' = UpdateHealth(net)
  /\ UNCHANGED <<http, ws, hook, chat, poll, app, ui>>

\* checkNow() (GlassCard.tsx:464-467)
NetCheckNow ==
  /\ net.live
  /\ net' = UpdateHealth(net)
  /\ UNCHANGED <<http, ws, hook, chat, poll, app, ui>>

\* start() (GlassCard.tsx:472-476)
NetStart ==
  /\ net.live
  /\ net' = [net EXCEPT !.healthCheckTimer = TRUE]
  /\ UNCHANGED <<http, ws, hook, chat, poll, app, ui>>

\* stop() (GlassCard.tsx:481-483)
NetStop ==
  /\ net.live
  /\ net' = [net EXCEPT !.healthCheckTimer = FALSE]
  /\ UNCHANGED <<http, ws, hook, chat, poll, app, ui>>

\* destroy() (GlassCard.tsx:488-499)
NetDestroy ==
  /\ net.live
  /\ net' = [net EXCEPT !.healthCheckTimer = FALSE, !.listening = FALSE]
  /\ UNCHANGED <<http, ws, hook, chat, poll, app, ui>>

\* the steps that call updateHealth(), while the model's budget of calls lasts
NextNet ==
  \/ net.updates < MaxUpdates /\ HandleOnline
  \/ net.updates < MaxUpdates /\ HandleOffline
  \/ net.updates < MaxUpdates /\ HandleConnectionChange
  \/ net.updates < MaxUpdates /\ NetTimerFires
  \/ net.updates < MaxUpdates /\ NetCheckNow
  \/ NetStart
  \/ NetStop
  \/ NetDestroy

\* ============================================================== ChatInterface
\* The ChatInterface component (unnamed/part_001:568-630).

\* accepted sendMessage() calls per component in the model
MaxSends == 3

\* The component after its first render (part_001:569-578).  messages holds
\* the kind of each message: "welcome", "user", and for the assistant "reply",
\* "error_response" (success false) and "error_thrown" (the catch block);
\* input: the text box holds something other than blanks; pending: the
\* request of sendMessage is in flight; sends counts the accepted calls.
UiIdle ==
  [live |-> TRUE, messages |-> <<"welcome">>, input |-> FALSE,
   sessionId |-> FALSE, loading |-> FALSE, pending |-> FALSE, sends |-> 0]

UiOff == [UiIdle EXCEPT !.live = FALSE]

\* What sendMessage appends once api.sendMessage() has settled
\* (part_001:600-626).  The call resolves with success true and data ("reply",
\* "reply_session" when data carries a sessionId), with success true and no
\* data ("no_data": reading result.data.response throws inside the try
\* block), with success false ("unsuccessful"), or it rejects ("throw").
MutCatchAppendsNothing(o) ==
  IF o \in {"reply", "reply_session"}
    THEN <<"reply">>
    ELSE IF o = "unsuccessful" THEN <<"error_response">> ELSE <<>>
AppendedOnSettle(o) ==
  IF o \in {"reply", "reply_session"}
    THEN <<"reply">>
    ELSE IF o = "unsuccessful" THEN <<"error_response">> ELSE <<"error_thrown">>

\* the user edits the text box (part_001:576)
UiType ==
  /\ ui.live
  /\ \E b \in BOOLEAN : ui' = [ui EXCEPT !.input = b]
  /\ UNCHANGED <<http, ws, hook, chat, poll, app, net>>

\* sendMessage() up to its request (part_001:588-600); a call with a blank
\* input or while loading returns at once
UiSendMessage ==
  /\ ui.live
  /\ ui' = IF ~ui.input \/ ui.loading
             THEN ui
             ELSE [ui EXCEPT !.messages = Append(@, "user"), !.input = FALSE,
                             !.loading = TRUE, !.pending = TRUE,
                             !.sends = @ + 1]
  /\ UNCHANGED <<http, ws, hook, chat, poll, app, net>>

\* api.sendMessage() settles (part_001:600-629)
UiSendSettles ==
  /\ ui.pending
  /\ \E o \in {"reply", "reply_session", "no_data", "unsuccessful", "throw"} :
       ui' = [ui EXCEPT !.messages = @ \o AppendedOnSettle(o),
                        !.sessionId = IF o = "reply_session" THEN TRUE ELSE @,
                        !.loading = FALSE, !.pending = FALSE]
  /\ UNCHANGED <<http, ws, hook, chat, poll, app, net>>

NextUi ==
  \/ UiType
  \/ ui.sends < MaxSends /\ UiSendMessage
  \/ UiSendSettles

\* ============================================================== the specs
\* A specification exercises the components it names; the others are not in
\* use (live = FALSE) and take no step.
HttpOff == [HttpIdle EXCEPT !.live = FALSE]
WsOff == [WsIdle EXCEPT !.live = FALSE]
HookOff == [HookIdle EXCEPT !.live = FALSE]
ChatOff == [ChatIdle EXCEPT !.live = FALSE]

RECURSIVE SeqsUpTo(_, _)
\* the sequences over S of length at most n
SeqsUpTo(S, n) ==
  IF n = 0
    THEN {<<>>}
    ELSE LET shorter == SeqsUpTo(S, n - 1)
         IN  shorter \cup {Append(q, x) : q \in shorter, x \in S}

InitHttp ==
  /\ ui = UiOff
  /\ net = NetOff
  /\ app = AppOff
  /\ poll = PollOff
  /\ http = HttpIdle
  /\ ws = WsOff
  /\ hook = HookOff
  /\ chat = ChatOff

SpecHttp == InitHttp /\ [][NextHttp]_vars

\* the WebSocket connection manager alone
InitWs ==
  /\ ui = UiOff
  /\ net = NetOff
  /\ app = AppOff
  /\ poll = PollOff
  /\ http = HttpOff
  /\ ws = WsIdle
  /\ hook = HookOff
  /\ chat = ChatOff

SpecWs == InitWs /\ [][NextWs]_vars

\* the response bodies of the reader specifications
Scripts ==
  {sc \in [frames : SeqsUpTo(FrameKinds, MaxFrames), sep : {1, 2}, open : BOOLEAN] :
     sc.open => (sc.frames # <<>> /\ sc.sep = 1)}

\* the two stream readers, each on every script, with no failure and no
\* cancellation: one connect (or one streamChat call), the response, the reads
InitReaders ==
  /\ ui = UiOff
  /\ net = NetOff
  /\ app = AppOff
  /\ poll = PollOff
  /\ http = HttpOff
  /\ ws = WsOff
  /\ \E sc \in Scripts :
       \/ /\ hook = HookIdleWith(sc.frames, sc.sep, sc.open,
                                 DEFAULT_MAX_RETRIES, DEFAULT_MAX_RETRY_DELAY)
          /\ chat = ChatOff
       \/ /\ hook = HookOff
          /\ chat = ChatIdleWith(sc.frames, sc.sep, sc.open)

HookReaderConnect == hook.started = 0 /\ HookConnect

NextReaders ==
  \/ HookReaderConnect
  \/ HookResponse
  \/ HookRead
  \/ HookReadDone
  \/ ChatStart
  \/ ChatResponse
  \/ ChatRead
  \/ ChatReadDone

SpecReaders == InitReaders /\ [][NextReaders]_vars

\* the useSSE hook through its whole life cycle, on one short response body
HookScripts == {<<"json">>}
HookCaps == {DEFAULT_MAX_RETRY_DELAY, 1500}

InitHook ==
  /\ ui = UiOff
  /\ net = NetOff
  /\ app = AppOff
  /\ poll = PollOff
  /\ http = HttpOff
  /\ ws = WsOff
  /\ chat = ChatOff
  /\ \E fr \in HookScripts, r \in 0..(MaxAttempts - 1), cap \in HookCaps :
       hook = HookIdleWith(fr, 1, FALSE, r, cap)

SpecHook == InitHook /\ [][NextHook]_vars

\* the useSSE hook left to itself after one connect(): no disconnect(), no
\* reset(), no second connect()
NextUnattended ==
  \/ HookReaderConnect
  \/ HookTimeoutFires
  \/ HookRetryFires
  \/ HookFetchAborted
  \/ HookFetchFails
  \/ HookResponse
  \/ HookErrBodySettles
  \/ HookRead
  \/ HookReadDone
  \/ HookReadAborted
  \/ HookReadFails

SpecUnattended == InitHook /\ [][NextUnattended]_vars

\* streamChat through one whole call, on one response body, with failures and
\* with the caller aborting options.signal
ChatScripts == {<<"json", "done">>, <<"raw">>}

InitChat ==
  /\ ui = UiOff
  /\ net = NetOff
  /\ app = AppOff
  /\ poll = PollOff
  /\ http = HttpOff
  /\ ws = WsOff
  /\ hook = HookOff
  /\ \E fr \in ChatScripts : chat = ChatIdleWith(fr, 1, FALSE)

SpecChat == InitChat /\ [][NextChat]_vars

\* the polling hook through its whole life cycle
PollDelays == {DEFAULT_INITIAL_DELAY, 1000}
PollCaps == {1, 2}

InitPoll ==
  /\ ui = UiOff
  /\ net = NetOff
  /\ app = AppOff
  /\ http = HttpOff
  /\ ws = WsOff
  /\ hook = HookOff
  /\ chat = ChatOff
  /\ \E m \in PollCaps, d \in PollDelays :
       poll = PollIdleWith(m, d, DEFAULT_MAX_BACKOFF_DELAY)

SpecPoll == InitPoll /\ [][NextPoll]_vars

InitPollLoop ==
  /\ ui = UiOff
  /\ net = NetOff
  /\ app = AppOff
  /\ http = HttpOff
  /\ ws = WsOff
  /\ hook = HookOff
  /\ chat = ChatOff
  /\ \E m \in 0..MaxPolls, d \in PollDelays :
       poll = PollIdleWith(m, d, DEFAULT_MAX_BACKOFF_DELAY)

\* the polling loop left to itself: start() at any moment, the timers and the
\* pollFn calls; no stop(), no reset(), no poll()
NextPollLoop ==
  \/ PollStart
  \/ PollTimerFires
  \/ PollLoopProbeSettles

SpecPollLoop == InitPollLoop /\ [][NextPollLoop]_vars

\* the application flow: either copy of useAstroAuth, with and without a
\* stored token
InitApp ==
  /\ ui = UiOff
  /\ net = NetOff
  /\ \E v \in {"status", "404"}, t \in BOOLEAN : app = AppIdleWith(v, t)
  /\ poll = PollOff
  /\ http = HttpOff
  /\ ws = WsOff
  /\ hook = HookOff
  /\ chat = ChatOff

SpecApp == InitApp /\ [][NextApp]_vars

\* the network monitor: every maxHistorySize up to the bound, with and
\* without health checks, from every environment
InitNet ==
  /\ ui = UiOff
  /\ \E h \in 0..MaxHistory, t \in BOOLEAN, m \in NetEnvs : net = NetIdleWith(h, t, m)
  /\ app = AppOff
  /\ poll = PollOff
  /\ http = HttpOff
  /\ ws = WsOff
  /\ hook = HookOff
  /\ chat = ChatOff

SpecNet == InitNet /\ [][NextNet]_vars

\* calculateQuality on every combination of metrics: a monitor built while
\* the browser reports them, then checkNow()
InitQuality ==
  /\ ui = UiOff
  /\ \E m \in NetMetrics : net = NetIdleWith(MaxHistory, FALSE, m)
  /\ app = AppOff
  /\ poll = PollOff
  /\ http = HttpOff
  /\ ws = WsOff
  /\ hook = HookOff
  /\ chat = ChatOff

NextQuality == net.updates < 2 /\ NetCheckNow

SpecQuality == InitQuality /\ [][NextQuality]_vars

\* the chat interface alone
InitUi ==
  /\ ui = UiIdle
  /\ net = NetOff
  /\ app = AppOff
  /\ poll = PollOff
  /\ http = HttpOff
  /\ ws = WsOff
  /\ hook = HookOff
  /\ chat = ChatOff

SpecUi == InitUi /\ [][NextUi]_vars

\* the three backoff sequences: HttpClient.request, useSSE and the WebSocket
\* connection manager, one of them in use per behaviour
InitBackoff ==
  /\ ui = UiOff
  /\ net = NetOff
  /\ app = AppOff
  /\ poll = PollOff
  /\ \/ /\ http = HttpIdle /\ ws = WsOff /\ hook = HookOff /\ chat = ChatOff
     \/ /\ http = HttpOff /\ ws = WsIdle /\ hook = HookOff /\ chat = ChatOff
     \/ /\ http = HttpOff /\ ws = WsOff /\ chat = ChatOff
        /\ \E fr \in HookScripts, r \in 0..(MaxAttempts - 1), cap \in HookCaps :
             hook = HookIdleWith(fr, 1, FALSE, r, cap)

NextBackoff == NextHttp \/ NextWs \/ NextHook

SpecBackoff == InitBackoff /\ [][NextBackoff]_vars

\* ---------------------------------------------------------- backoff claim
\* every element of s is at most cap
AllAtMost(s, cap) == \A i \in 1..Len(s) : s[i] <= cap

HookWhole(body) ==
  LET lines == SplitLines(body)
  IN  ProcessLines(CompleteLines(lines))
        \o (IF Trim(Last(lines)) # <<>> THEN ProcessSSEChunk(Last(lines)) ELSE <<>>)

\* what streamChat delivers when the whole body arrives in one read
ChatWhole(body) ==
  LET lines == SplitLines(body)
      res == ChatLines(CompleteLines(lines))
  IN  IF res.done THEN res.out ELSE res.out \o ChatRemaining(Last(lines))

\* C7: however the body is split into reads, the reader delivers to onChunk
\* the sequence of chunks, and to onComplete the text, that it delivers when
\* the whole body arrives in a single read.
C7_FramingIndependentOfChunking ==
  /\ hook.completes > 0
       => /\ hook.chunks = HookWhole(hook.body)
          /\ hook.completeText = Flatten(HookWhole(hook.body))
  /\ chat.completes > 0
       => /\ chat.chunks = ChatWhole(chat.body)
          /\ chat.completeText = Flatten(ChatWhole(chat.body))

C7_Witness ==
  /\ hook.completes = 1
  /\ hook.midLine
  /\ Len(hook.chunks) >= 2

\* the index of the first [DONE] frame of a script, 0 when it has none
FirstDone(frames) ==
  IF \E i \in 1..Len(frames) : frames[i] = "done"
    THEN CHOOSE i \in 1..Len(frames) :
           frames[i] = "done" /\ \A j \in 1..(i - 1) : frames[j] # "done"
    ELSE 0

\* the [DONE] rule for one reader: with k the first [DONE] frame of a stream
\* whose every line is terminated, at most the k - 1 frames before it are
\* delivered, and onComplete gets the text of what was delivered
DoneTerminalFor(r) ==
  LET k == FirstDone(r.frames)
  IN  (k # 0 /\ ~r.open) =>
        /\ Len(r.chunks) <= k - 1
        /\ (r.completes > 0 => r.completeText = Flatten(r.chunks))

\* C8: a [DONE] frame is terminal: no frame after it is delivered to onChunk
\* or added to the text, and onComplete gets the text accumulated up to it.
C8_DoneIsTerminal == DoneTerminalFor(hook) /\ DoneTerminalFor(chat)

\* the content a content frame carries
ContentKinds == {"raw", "json"}
FrameContent(kind) == IF kind = "raw" THEN <<"x", "y">> ELSE <<"h">>

\* a stream of content frames followed by [DONE], every line terminated
ContentThenDone(frames, open) ==
  /\ frames # <<>>
  /\ ~open
  /\ Last(frames) = "done"
  /\ \A i \in 1..(Len(frames) - 1) : frames[i] \in ContentKinds

\* the contents of the content frames of such a stream, in order
Contents(frames) == [i \in 1..(Len(frames) - 1) |-> FrameContent(frames[i])]

\* s is a prefix of t
IsPrefix(s, t) == Len(s) <= Len(t) /\ s = SubSeq(t, 1, Len(s))

\* C9: for n content frames followed by [DONE], over any reads, onChunk gets
\* the n contents in order (at every moment a prefix of them), and onComplete
\* is invoked once, after the last onChunk, with their concatenation.
C9_ChunksThenOneComplete ==
  /\ ContentThenDone(hook.frames, hook.open) =>
       /\ IsPrefix(hook.chunks, Contents(hook.frames))
       /\ hook.completes <= 1
       /\ (hook.opens = 1 /\ hook.att[1].pc = "ended") => hook.completes = 1
       /\ hook.completes = 1 =>
            /\ hook.chunks = Contents(hook.frames)
            /\ hook.completeAt = Len(hook.frames) - 1
            /\ hook.completeText = Flatten(Contents(hook.frames))
  /\ ContentThenDone(chat.frames, chat.open) =>
       /\ IsPrefix(chat.chunks, Contents(chat.frames))
       /\ chat.completes <= 1
       /\ (chat.starts = 1 /\ chat.pc = "ended") => chat.completes = 1
       /\ chat.completes = 1 =>
            /\ chat.chunks = Contents(chat.frames)
            /\ chat.completeAt = Len(chat.frames) - 1
            /\ chat.completeText = Flatten(Contents(chat.frames))

C9_Witness ==
  /\ chat.frames = <<"json", "raw", "done">>
  /\ chat.sep = 2
  /\ chat.midLine
  /\ chat.completes = 1
  /\ chat.completeText = <<"h", "x", "y">>

\* ------------------------------------------------------- disconnect claim
\* invocation id of connectInternal is suspended at an await
Suspended(id) == hook.att[id].pc \in {"fetch", "errbody", "read"}

\* C10: after disconnect() on a connecting or streaming session (and until
\* the next connect()), the transport of every pending attempt is aborted,
\* onError is not invoked, and the status is 'idle'.
C10_DisconnectLeavesIdle ==
  hook.cancelled =>
    /\ \A id \in AttemptIds : Suspended(id) => id \in hook.aborted
    /\ hook.errors = hook.errorsAtCancel
    /\ hook.status = "idle"

\* ------------------------------------------------------------ HTTP claims
\* the outcomes the specification classifies as retryable: network failure,
\* timeout, HTTP 5xx, HTTP 429
SpecRetryable(o) ==
  \/ o.type \in {"network", "timeout"}
  \/ (o.type = "response" /\ (o.status >= 500 \/ o.status = 429))

\* C1: when every attempt ends in a retryable error, at most retries + 1
\* network calls are issued and the request then fails: the call count never
\* exceeds retries + 1, a backoff wait is entered only while a call remains,
\* a request all of whose attempts ended in retryable errors never returns a
\* result, and once it has used up its calls it has thrown.
C1_RetryCeiling ==
  /\ http.calls <= http.retries + 1
  /\ (http.pc = "backoff" => http.calls <= http.retries)
  /\ ( ( /\ http.outcomes # <<>>
         /\ \A i \in 1..Len(http.outcomes) : SpecRetryable(http.outcomes[i]) )
       => http.pc # "returned" )
  /\ ( ( /\ \A i \in 1..Len(http.outcomes) : SpecRetryable(http.outcomes[i])
         /\ Len(http.outcomes) = http.retries + 1 )
       => (http.pc = "thrown" /\ http.calls = http.retries + 1) )

C1_Witness ==
  /\ http.pc = "thrown"
  /\ http.retries >= 2
  /\ http.calls = http.retries + 1
  /\ \A i \in 1..Len(http.outcomes) : SpecRetryable(http.outcomes[i])

\* C2: a 401 response on the first attempt gives exactly one network call and
\* the error is surfaced at once.
C2_NoRetryOn401 ==
  http.firstStatus = 401
    => (http.calls = 1 /\ http.pc \in {"parsing", "thrown"})

\* C3: a 429 response is followed by a backoff wait and another attempt while
\* attempts remain; any other 4xx response ends the call with that attempt.
C3_Retry429Only ==
  LET o == Last(http.outcomes)
      n == Len(http.outcomes)
  IN  (n >= 1 /\ n = http.calls /\ o.type = "response")
        => /\ (o.status = 429 /\ n <= http.retries) => http.pc = "backoff"
           /\ (o.status >= 400 /\ o.status < 500 /\ o.status # 429)
                 => http.pc = "thrown"

\* C4: an attempt that times out is classified as a timeout error and, while
\* attempts remain, is followed by another attempt exactly as a network
\* failure is.
C4_TimeoutRetried ==
  LET o == Last(http.outcomes)
      n == Len(http.outcomes)
  IN  (n >= 1 /\ n = http.calls /\ o.type = "timeout")
        => /\ http.lastError.kind = "TimeoutError"
           /\ (n <= http.retries => http.pc = "backoff")
           /\ (n > http.retries => http.pc = "thrown")

\* attempts 1..k of the request failed with a network error
AllNetwork(k) == \A i \in 1..k : http.outcomes[i].type = "network"

\* C5: when attempts 1..k fail with a network error (k <= retries) no error is
\* surfaced, and when attempt k+1 then succeeds the caller gets the result
\* after exactly k+1 network calls; never are two calls in flight.
C5_RetryThenSuccess ==
  LET n == Len(http.outcomes)
  IN  /\ http.inFlight <= 1
      /\ (n >= 1 /\ n <= http.retries /\ AllNetwork(n)) => http.pc # "thrown"
      /\ ( /\ n >= 1
           /\ AllNetwork(n - 1)
           /\ http.outcomes[n].type = "response"
           /\ ResponseOk(http.outcomes[n].status) )
         => (http.pc = "returned" /\ http.calls = n)

C5_Witness ==
  /\ http.pc = "returned"
  /\ http.retries = DEFAULT_RETRIES
  /\ http.calls = 3
  /\ AllNetwork(2)
  /\ http.outcomes[3] = Outcome("response", 200)

\* ------------------------------------------------- repeated disconnect claim
\* the callbacks invoked so far: onMessage, onOpen, onComplete, onError
HookCallbacks(h) == <<h.chunks, h.opens, h.completes, h.errors>>

\* C11: a disconnect() that follows another disconnect() with no connect()
\* in between, or that is called in status 'completed', invokes none of
\* onMessage, onOpen, onComplete, onError, arms no timer, and ends in status
\* 'idle'.
C11_RepeatedDisconnectIsSilent ==
  [][ (HookDisconnect /\ (hook.disconnected \/ hook.status = "completed"))
        => /\ HookCallbacks(hook') = HookCallbacks(hook)
           /\ hook'.retryTimers \subseteq hook.retryTimers
           /\ hook'.timeoutTimers \subseteq hook.timeoutTimers
           /\ hook'.status = "idle" ]_vars

C11_Witness ==
  /\ hook.disconnected
  /\ hook.started = 1
  /\ hook.completes = 1
  /\ hook.text # <<>>
  /\ hook.status = "idle"

\* ------------------------------------------------------ stream retry claims
\* the error codes of the transport-level failures of a stream open
TransportCodes == {"FETCH_ERROR", "READ_ERROR", "NO_BODY"}

\* C12: after one connect(), with no disconnect() or reset(): at most
\* maxRetries + 1 stream opens are made; while a transport failure is the
\* recorded error of a 'connecting' session a retry timer is armed; a
\* transport failure is surfaced only when the retries are used up; onError
\* is invoked at most once, and exactly once when the status is 'error'.
C12_StreamRetryCeiling ==
  /\ hook.started <= hook.maxRetries + 1
  /\ hook.errors <= 1
  /\ (hook.status = "error") <=> (hook.errors = 1)
  /\ (hook.status = "error" /\ hook.error \in TransportCodes)
       => hook.retryCountRef = hook.maxRetries
  /\ (hook.status = "connecting" /\ hook.error \in TransportCodes)
       => (hook.retryTimeoutRef \in hook.retryTimers
           /\ hook.retryCountRef <= hook.maxRetries)

C12_Witness ==
  /\ hook.status = "error"
  /\ hook.error = "READ_ERROR"
  /\ hook.errors = 1
  /\ hook.maxRetries = 1
  /\ hook.started = 2
  /\ Len(hook.delays) = 1

\* C14: after connect(), with no disconnect() or reset(), the session never
\* goes back to 'idle': an open that times out is retried ('connecting') or
\* surfaced ('error'), as a transport failure is.
C14_TimeoutIsTransportFailure ==
  hook.started >= 1 => hook.status # "idle"

\* -------------------------------------------------------- one stream claim
\* the invocations of connectInternal whose fetch or body reader is open:
\* suspended at an await, their AbortController not aborted
OpenStreams(h) ==
  {id \in AttemptIds :
     h.att[id].pc \in {"fetch", "errbody", "read"} /\ id \notin h.aborted}

C15_ChatAbortIsSilent ==
  chat.aborted => (chat.errors = <<>> /\ chat.completes = 0)

\* ---------------------------------------------------------- polling claims
\* the pollFn calls the loop has pending or has a timer armed for
LoopActivity(p) == Cardinality(p.timers) + p.inflight.loop

\* C16: start() called in status 'polling' changes nothing (it returns at its
\* first test), so that, with start() called at any moment, the controller
\* has at most one timer or pending probe, and every probe but the pending
\* one has settled.
C16_StartWhilePollingIsNoOp ==
  /\ [](LoopActivity(poll) <= 1)
  /\ [](poll.probes = Len(poll.outcomes) + poll.inflight.loop)
  /\ [][ (PollStart /\ poll.status = "polling")
           => poll' = [poll EXCEPT !.startIgnored = TRUE] ]_vars

C16_Witness ==
  /\ poll.startIgnored
  /\ poll.status = "polling"
  /\ poll.probes = 2
  /\ poll.timers # {}

\* C17: once stop() was called in status 'polling', and until the next
\* start() (or poll()), the status is 'stopped' and neither onSuccess nor
\* onError is invoked.
C17_StopSilences ==
  poll.halted =>
    /\ poll.status = "stopped"
    /\ poll.successes = poll.successesAtStop
    /\ Len(poll.errors) = poll.errorsAtStop

\* C18: when the last pollFn call rejected and the attempts made are fewer
\* than maxPolls, polling has not ended: the status is 'polling', no error
\* was reported, and a timer is armed for the next probe with the backoff
\* interval.
C18_ThrowDoesNotEndPolling ==
  LET n == Len(poll.outcomes)
  IN  (n >= 1 /\ poll.outcomes[n] = "throw" /\ poll.probes = n /\ n < poll.maxPolls)
        => /\ poll.status = "polling"
           /\ poll.errors = <<>>
           /\ poll.timers # {}
           /\ poll.currentIntervalRef = PollBackoffDelay(poll, poll.consecutiveErrorsRef)

\* C19: a result that satisfies stopWhen is the last thing the loop does: no
\* later probe is made and no timer is left; with isError(result) the status
\* is 'error' and onError alone was invoked, once, with POLL_RESULT_ERROR;
\* otherwise the status is 'success' and onSuccess alone was invoked, once.
C19_StopResultEndsPolling ==
  LET n == Len(poll.outcomes)
      stops == {i \in 1..n : StopWhen(poll.outcomes[i])}
  IN  stops # {} =>
        /\ stops = {n}
        /\ poll.probes = n
        /\ LoopActivity(poll) = 0
        /\ ~poll.isPolling
        /\ IF IsError(poll.outcomes[n])
             THEN /\ poll.status = "error"
                  /\ poll.errors = <<"POLL_RESULT_ERROR">>
                  /\ poll.successes = 0
             ELSE /\ poll.status = "success"
                  /\ poll.successes = 1
                  /\ poll.errors = <<>>

C19_Witness ==
  /\ poll.status = "success"
  /\ poll.maxPolls = 3
  /\ poll.outcomes = <<"pending", "flagged", "done">>
  /\ poll.successes = 1

\* every pollFn call so far resolved with a result that does not satisfy
\* stopWhen
NoStopResult(p) ==
  \A i \in 1..Len(p.outcomes) : p.outcomes[i] \in PollResults /\ ~StopWhen(p.outcomes[i])

\* the number of probes after which the loop gives up
PollCeiling(p) == IF p.maxPolls >= 1 THEN p.maxPolls ELSE 1

C21_OnePollSession ==
  /\ Cardinality(poll.timers) <= 1
  /\ poll.timers # {} => poll.inflight.loop = 0
  /\ poll.halted => poll.timers = {}

\* C22: when a polled result has status 'failed' onFail has been invoked, and
\* when it has status 'completed' onComplete has been invoked, once for each
\* such result.
C22_FailedCallsOnFail ==
  LET n == Len(poll.outcomes)
  IN  /\ poll.fails = Cardinality({i \in 1..n : poll.outcomes[i] = "failed"})
      /\ poll.completes = Cardinality({i \in 1..n : poll.outcomes[i] = "done"})

\* C23: after an accepted submit, when the profile polls report a status that
\* is not 'completed' k times and then 'completed', the chat is rendered,
\* after exactly k+1 profile fetches and at most k+1 timer waits.
C23_CompletedPollOpensChat ==
  app.pollingComplete =>
    /\ Screen(app) = "chat"
    /\ app.fetches = app.others + 1
    /\ app.waits <= app.others + 1

\* C24: the chat is rendered only after a profile fetch has reported status
\* 'completed', at the initial check or in a poll of the onboarding form.
C24_ChatOnlyAfterCompleted ==
  Screen(app) = "chat" =>
    \/ app.initial = [status |-> 200, body |-> "completed"]
    \/ app.sawCompleted

\* C25: when the profile request of the initial check is answered with HTTP
\* 404 the onboarding form is rendered at once, and the initial check makes
\* exactly one request to the profile endpoint.
C25_NotFoundOpensOnboarding ==
  /\ app.checks <= 1
  /\ (app.initial.status = 404 /\ ~app.bypassChat) =>
       (Screen(app) = "onboarding" /\ app.checks = 1)

C25_Witness ==
  /\ app.initial.status = 404
  /\ app.checks = 1
  /\ Screen(app) = "onboarding"
  /\ app.submitResult = "none"

\* C26: when the profile request of the initial check is answered with 401 or
\* 500 or fails at network level, neither the onboarding form nor the chat is
\* rendered.
C26_ErrorDoesNotAdvance ==
  (app.check = "done" /\ app.hasToken /\ app.initial.status \in {401, 500, 0}) =>
    Screen(app) \notin {"onboarding", "chat"}

\* C27: when a profile poll after the submit reports 'failed', polling stops at
\* that poll and the form shows an error message.
C27_FailedPollStopsPolling ==
  app.failedAt # 0 =>
    /\ app.fetches = app.failedAt
    /\ app.formPc = "idle"
    /\ app.formError # "none"
    /\ Screen(app) = "onboarding"

\* C28: the polling loop makes at most maxAttempts profile fetches, each after
\* one timer wait; when it ends with no poll reporting 'completed' it has
\* made maxAttempts fetches and the form is rendered with the timeout message
\* and loading cleared; the chat is not reached from the form without a poll.
C28_PollingLoopEnds ==
  /\ app.fetches <= maxAttempts
  /\ app.waits = app.attempts
  /\ app.waits = app.fetches + (IF app.formPc = "wait" THEN 1 ELSE 0)
  /\ (app.submitResult = "accepted" /\ app.formPc = "idle" /\ ~app.pollingComplete) =>
       /\ app.fetches = maxAttempts
       /\ app.formError = "timeout"
       /\ ~app.formLoading
       /\ Screen(app) = "onboarding"
  /\ (Screen(app) = "chat" /\ app.status # "ready") => app.polledOnce

C28_Witness ==
  /\ app.submitResult = "accepted"
  /\ app.formPc = "idle"
  /\ app.fetches = maxAttempts
  /\ app.waits = maxAttempts
  /\ app.formError = "timeout"
  /\ ~app.formLoading

\* C29: for every combination of connection type, effective type, rtt band,
\* downlink band and saveData the score of calculateQuality is within 0..100,
\* and when isOnline is false the score is 0 and the level is 'offline'.
C29_ScoreClamped ==
  /\ net.quality = CalculateQuality(net.metrics)
  /\ net.quality.score \in 0..100
  /\ ~net.metrics.isOnline =>
       (net.quality.score = 0 /\ net.quality.level = "offline")

C29_Witness ==
  /\ net.updates = 2
  /\ ~net.metrics.isOnline
  /\ net.metrics.connectionType = <<"ethernet">>
  /\ net.metrics.effectiveType = <<"4g">>
  /\ net.metrics.rtt = <<0>>
  /\ net.metrics.downlink = <<100>>
  /\ net.quality.score = 0
  /\ net.quality.level = "offline"

\* C30: after any sequence of connectivity events, timer ticks and checkNow()
\* calls the history holds at most maxHistorySize entries, and they are the
\* most recent samples in arrival order.
C30_HistoryIsRecentFifo ==
  LET n == Len(net.samples)
      k == Min(n, net.maxHistorySize)
  IN  /\ Len(net.history) <= net.maxHistorySize
      /\ net.history = SubSeq(net.samples, n - k + 1, n)

C30_Witness ==
  /\ net.maxHistorySize = 2
  /\ net.updates = 4
  /\ Len(net.history) = 2
  /\ net.history[1].timestamp = 3
  /\ net.history[2].timestamp = 4
  /\ net.history[1].isOnline # net.history[2].isOnline

\* the assistant messages after the welcome message
AssistantMessages(u) ==
  {i \in 2..Len(u.messages) : u.messages[i] # "user"}

\* C31: every accepted send ends with exactly one assistant message appended,
\* the reply or an inline error message, and with loading back to false.
C31_OneAssistantMessagePerSend ==
  /\ Len(ui.messages) = 1 + 2 * ui.sends - (IF ui.pending THEN 1 ELSE 0)
  /\ \A i \in 2..Len(ui.messages) :
       IF i % 2 = 0
         THEN ui.messages[i] = "user"
         ELSE ui.messages[i] \in {"reply", "error_response", "error_thrown"}
  /\ Cardinality(AssistantMessages(ui)) = ui.sends - (IF ui.pending THEN 1 ELSE 0)
  /\ ui.loading = ui.pending

C31_Witness ==
  /\ ui.sends = 3
  /\ ~ui.pending
  /\ ~ui.loading
  /\ ui.messages = <<"welcome", "user", "reply", "user", "error_response",
                     "user", "error_thrown">>

\* C32: a call that ends on an HTTP 401 response fails with an
\* AuthenticationError, not with the generic HttpApiError of the other
\* non-2xx statuses.
C32_401IsAuthenticationError ==
  (/\ http.pc = "thrown"
   /\ http.outcomes # <<>>
   /\ http.outcomes[Len(http.outcomes)] = Outcome("response", 401))
    => http.lastError.kind = "AuthenticationError"

\* C33: once reset() was called, in any status and with or without a probe
\* in flight, and until the next start() or poll(), the status is 'idle', the
\* poll count 0, there is no data, no error and no pending timer.
C33_ResetLeavesIdle ==
  poll.wasReset =>
    /\ poll.status = "idle"
    /\ poll.pollCount = 0
    /\ poll.data = "none"
    /\ poll.error = "none"
    /\ poll.timers = {}

\* C34: after disconnect(), whatever the attempt in flight was doing, and
\* until connect() is called again, no retry timer is pending and no new
\* connection attempt is started.
C34_DisconnectEndsAttempts ==
  [][hook'.disconnected =>
       /\ hook'.retryTimers = {}
       /\ (hook.disconnected => hook'.started = hook.started)]_vars

C36_TimeoutAbortsOwnAttempt ==
  [][\A t \in hook.timeoutTimers \ hook'.timeoutTimers :
       \A id \in hook'.aborted \ hook.aborted : id = t]_vars

\* C37: the text passed to onComplete, and stored in state.text when the
\* status becomes 'completed', is the concatenation of the chunks of the
\* attempt that completed, that is the text of the response body, with no
\* chunk of an earlier attempt that failed mid-stream.
C37_TextOfFinalAttemptOnly ==
  /\ hook.completes > 0 => hook.completeText = Flatten(HookWhole(hook.body))
  /\ hook.status = "completed" => hook.text = Flatten(HookWhole(hook.body))

\* C38: the internal polling flag is true exactly when the status is
\* 'polling', so that start() is ignored only while a loop is live: called in
\* status 'idle', 'stopped', 'success' or 'error' it begins a new loop, with
\* status 'polling', the poll count reset and a probe invoked or scheduled.
C38_StartIgnoredOnlyWhilePolling ==
  /\ [](poll.isPollingRef <=> poll.status = "polling")
  /\ [][ (PollStart /\ poll.status \in {"idle", "stopped", "success", "error"})
           => /\ poll'.status = "polling"
              /\ poll'.pollCountRef = 0
              /\ \/ poll'.probes = poll.probes + 1
                 \/ poll'.timers # poll.timers ]_vars

\* C39: isConnected is true only if the status is 'streaming'; in 'idle',
\* 'connecting', 'completed' and 'error' it is false.
C39_ConnectedOnlyWhileStreaming ==
  hook.isConnected => hook.status = "streaming"

\* C40: a retry count of MAX_RETRIES or more implies the state
\* 'max_retries_exceeded'; that state is left only by reset() or a recorded
\* successful connection (both reset the retry count), not by a recorded
\* disconnect or connection attempt.
C40_MaxRetriesStateSticks ==
  ws.retryCount >= MAX_RETRIES => ws.state = "max_retries_exceeded"

====
